---- MODULE Spec2Model ----
(***************************************************************************)
(* A model of the RAG core of rag-server: the retry decorator              *)
(* (app/utils/retry.py), the retrieval service over the vector index       *)
(* (app/services/retrieval_service.py), the query orchestrator             *)
(* (app/services/query_orchestrator.py) and the query routes that resolve  *)
(* the scope of a request (app/api/routes/query.py, widget.py).            *)
(*                                                                         *)
(* Eight specifications share the variables:                               *)
(*   SpecRetry  one execution of a function wrapped by retry_async         *)
(*   SpecIndex  upsert_chunks / search_policy / search_communications      *)
(*   SpecQuery  one HTTP query request, from the route to the response     *)
(*   SpecUpload the upload and delete routes, with the database session    *)
(*   SpecSegment the chunking of a document by the segmenter               *)
(*   (SpecSegmentFair: the same, with the steps that can be taken taken)   *)
(*   SpecDetect the detection of the sections of a document                *)
(*   SpecSelect the selection of the context and the result of a query     *)
(*   SpecRate   the rate limiter in front of the routes                    *)
(***************************************************************************)
EXTENDS Integers, Sequences, FiniteSets, TLC

VARIABLES
    rt,         \* the frame of the running retry_async wrapper
    trace,      \* what each invocation of the wrapped function did, in order
    index,      \* the vector index: the set of stored vectors (namespace, id, metadata)
    upserted,   \* every vector an upsert_chunks call has sent, as sent
    nextId,     \* the next unused chunk id (stands for uuid4)
    found,      \* the arguments and the result of the last search call
    request,    \* the HTTP request being served
    pc,         \* where the request's handler is
    response,   \* the HTTP response, once there is one
    searches,   \* the index queries issued while serving the request
    calls,      \* how often the request reached the orchestrator, each provider, the audit log
    db,         \* the committed rows of the documents table, each with its chunk rows
    session,    \* the unit of work of the request's database session
    storage,    \* the keys of the files in the object store
    jobs,       \* how many requests have been started (stands for uuid4)
    seg,        \* the segmenter: its configuration, its input and the locals of its loops
    limiter     \* the rate limiter: its clock and the timestamps it keeps for each key

vars == <<rt, trace, index, upserted, nextId, found, request, pc, response, searches, calls,
          db, session, storage, jobs, seg, limiter>>

None == "None"

(***************************************************************************)
(* Bounds of the model.                                                    *)
(***************************************************************************)
MaxRetries == 3
MaxChunks == 2
MaxTextLen == 5
MaxChunkSize == 3
MaxSections == 2
MaxWindows == 8

(***************************************************************************)
(* retry.py                                                                *)
(***************************************************************************)

\* getattr(e, "status_code", None): the value standing for a missing attribute
NoStatus == -1

OPENAI_RETRYABLE == {"RateLimitError", "APIConnectionError", "APITimeoutError", "InternalServerError"}

ANTHROPIC_RETRYABLE == {"RateLimitError", "APIConnectionError", "APITimeoutError", "InternalServerError", "OverloadedError"}

PINECONE_RETRYABLE == {"ServiceException", "PineconeException"}

\* the default of retryable_status_codes
RetryableStatusCodes == {429, 500, 502, 503, 504}

DefaultAllowNone == {}

\* the default of retryable_exceptions
DefaultAllow == {"Exception"}

\* The classes an exception of each kind is an instance of (its own class and
\* its bases); `except Exception` catches exactly the kinds listed here.
Bases(kind) ==
    CASE kind = "KeyError" -> {"KeyError", "LookupError", "Exception"}
      [] OTHER -> {kind, "Exception"}

\* The failures the wrapped operation can raise: kind, and the two attributes
\* the wrapper looks for.
ErrorPool ==
    { [kind |-> "ValueError",        status_code |-> NoStatus, status |-> NoStatus],
      [kind |-> "KeyError",          status_code |-> NoStatus, status |-> NoStatus],
      [kind |-> "RateLimitError",    status_code |-> 429,      status |-> NoStatus],
      [kind |-> "OverloadedError",   status_code |-> NoStatus, status |-> NoStatus],
      [kind |-> "NotFoundError",     status_code |-> 404,      status |-> NoStatus],
      [kind |-> "ApiException",      status_code |-> 0,        status |-> 503],
      [kind |-> "ServiceException",  status_code |-> NoStatus, status |-> 400] }

\* The values an operation can return
Values == {"a", "b"}

Outcomes ==
    { [ok |-> TRUE, val |-> v, err |-> None] : v \in Values }
    \cup { [ok |-> FALSE, val |-> None, err |-> e] : e \in ErrorPool }

\* the retryable_exceptions tuples the wrapper is built with
AllowSets == { DefaultAllow, {}, {"LookupError"}, {"ValueError", "RateLimitError"} }

\* isinstance(e, retryable_exceptions)
RetryableByType(e, allow) == Bases(e.kind) \cap allow # {}

\* type(e).__name__ in OPENAI_RETRYABLE + ANTHROPIC_RETRYABLE + PINECONE_RETRYABLE
RetryableByName(e) ==
    e.kind \in (OPENAI_RETRYABLE \cup ANTHROPIC_RETRYABLE \cup PINECONE_RETRYABLE)

StatusOfStatusCodeOnly(e) == e.status_code

\* status = getattr(e, "status_code", None) or getattr(e, "status", None)
StatusOf(e) ==
    IF e.status_code # NoStatus /\ e.status_code # 0 THEN e.status_code ELSE e.status

\* if status and status in retryable_status_codes
RetryableByStatus(e) ==
    LET status == StatusOf(e)
    IN  status # NoStatus /\ status # 0 /\ status \in RetryableStatusCodes

IsRetryableAlways(e, allow) == TRUE

IsRetryable(e, allow) ==
    RetryableByType(e, allow) \/ RetryableByName(e) \/ RetryableByStatus(e)

\* The defaults of base_delay, max_delay and backoff_factor; delays are in
\* tenths of a second.
DefaultBaseDelay == 10

DefaultMaxDelay == 300

BackoffFactor == 2

DefaultTiming == [base_delay |-> DefaultBaseDelay, max_delay |-> DefaultMaxDelay]

RECURSIVE Power(_, _)
Power(b, n) == IF n = 0 THEN 1 ELSE b * Power(b, n - 1)

\* delay = min(base_delay * (backoff_factor ** attempt), max_delay), before the
\* random jitter of 10 to 25 percent is added to it
Backoff(timing, attempt) ==
    LET d == timing.base_delay * Power(BackoffFactor, attempt)
    IN  IF d < timing.max_delay THEN d ELSE timing.max_delay

\* The wrapper's locals when it is entered
NewFrame(max_retries, timing, allow) ==
    [ max_retries    |-> max_retries,
      timing         |-> timing,
      allow          |-> allow,
      delay          |-> 0,
      attempt        |-> 0,
      invoked        |-> 0,
      sleeps         |-> 0,
      warnings       |-> 0,
      errors         |-> 0,
      last_exception |-> None,
      state          |-> "running",
      result         |-> None,
      raised         |-> None ]

\* the frame while no wrapper is running
Idle == [NewFrame(0, DefaultTiming, {}) EXCEPT !.state = "idle"]

\* The last attempt allowed: the wrapper re-raises instead of sleeping
LastAttemptOffByOne(f) == f.attempt + 1 >= f.max_retries

LastAttempt(f) == f.attempt = f.max_retries

\* The exception the wrapper lets out of a failed last attempt
RaisedFirst(f, e) == IF f.invoked = 0 THEN e ELSE [f.last_exception EXCEPT !.at = 1]

Raised(f, e) == e

\* One iteration of `for attempt in range(max_retries + 1)`: the wrapped
\* function is invoked once and does `out`. The exception of invocation n is
\* the object [err, at |-> n]; a result is [val, at |-> n].
Attempt(f, out) ==
    LET n == f.invoked + 1
        e == [err |-> out.err, at |-> n]
    IN  IF out.ok
        THEN [f EXCEPT !.invoked = n, !.state = "returned",
                       !.result = [val |-> out.val, at |-> n]]
        ELSE IF ~IsRetryable(out.err, f.allow) \/ LastAttempt(f)
        THEN [f EXCEPT !.invoked = n, !.state = "raised", !.errors = @ + 1,
                       !.raised = Raised(f, e), !.last_exception = e]
        ELSE [f EXCEPT !.invoked = n, !.last_exception = e, !.attempt = @ + 1,
                       !.delay = Backoff(f.timing, f.attempt),
                       !.warnings = @ + 1, !.sleeps = @ + 1]

\* the variables SpecRetry leaves alone
otherThanRetry == <<limiter, index, upserted, nextId, found, request, pc, response, searches, calls,
                    db, session, storage, jobs, seg>>

InitRetry ==
    /\ \E n \in 0..MaxRetries, allow \in AllowSets : rt = NewFrame(n, DefaultTiming, allow)
    /\ trace = <<>>
    /\ index = {}
    /\ upserted = {}
    /\ nextId = 1
    /\ found = [kind |-> None]
    /\ request = None
    /\ pc = "retry"
    /\ response = None
    /\ searches = <<>>
    /\ calls = None
    /\ db = {}
    /\ session = None
    /\ storage = {}
    /\ jobs = 0
    /\ limiter = None
    /\ seg = None

\* the wrapped function returns
InvokeOk ==
    /\ pc = "retry"
    /\ rt.state = "running"
    /\ \E out \in Outcomes :
        /\ out.ok
        /\ rt' = Attempt(rt, out)
        /\ trace' = Append(trace, out)
    /\ UNCHANGED otherThanRetry

\* the wrapped function raises
InvokeFail ==
    /\ pc = "retry"
    /\ rt.state = "running"
    /\ \E out \in Outcomes :
        /\ ~out.ok
        /\ rt' = Attempt(rt, out)
        /\ trace' = Append(trace, out)
    /\ UNCHANGED otherThanRetry

NextRetry == InvokeOk \/ InvokeFail

SpecRetry == InitRetry /\ [][NextRetry]_vars

\* A whole execution of the wrapper: the wrapped function does outs[1] on its
\* first invocation, outs[2] on its second, ... until the wrapper returns or
\* raises (the outcomes left over are never asked for).
RECURSIVE RunWrapped(_, _)
RunWrapped(f, outs) ==
    IF f.state # "running" \/ outs = <<>> THEN f
    ELSE RunWrapped(Attempt(f, Head(outs)), Tail(outs))

(***************************************************************************)
(* retrieval_service.py and the vector index behind it                     *)
(***************************************************************************)

Tenants == {"t1", "t2"}

PolicyNumbers == {"P1", "P2"}

DocumentTypes == {"policy", "communication"}

CommunicationTypes == {"letter"}

\* settings.top_k_retrieval
top_k_retrieval == 10

\* The similarity the index reports between the question and the embedding
\* of chunk id (provider-defined; ids 2 and 3 tie).
Similarity(id) == CASE id % 4 = 1 -> 7 [] id % 4 = 2 -> 9 [] id % 4 = 3 -> 9 [] OTHER -> 5

\* the failures of an index call
IndexErrors ==
    { e \in ErrorPool : e.kind \in {"ServiceException", "NotFoundError"} }

\* The chunk lists upsert_chunks is called with: n chunks with fresh ids
\* first, first+1, ..., in chunk_index order, of communication type ct.
ChunkList(first, n, ct) ==
    [ i \in 1..n |-> [chunk_id |-> first + i - 1, chunk_index |-> i - 1,
                      communication_type |-> ct] ]

UpsertNamespaceShared(tenant_id) == "shared"

\* namespace = tenant_id
UpsertNamespace(tenant_id) == tenant_id

\* The metadata upsert_chunks builds for a chunk; a key the code leaves out
\* is None here.
ChunkMetadata(chunk, tenant_id, document_type, policy_number) ==
    [ tenant_id          |-> tenant_id,
      document_type      |-> document_type,
      chunk_index        |-> chunk.chunk_index,
      policy_number      |-> IF policy_number # None /\ policy_number # ""
                             THEN policy_number ELSE None,
      communication_type |-> IF chunk.communication_type # None
                                /\ chunk.communication_type # ""
                             THEN chunk.communication_type ELSE None ]

\* vectors: one per chunk, in order
Vectors(chunks, tenant_id, document_type, policy_number) ==
    [ i \in 1..Len(chunks) |->
        [ id       |-> chunks[i].chunk_id,
          metadata |-> ChunkMetadata(chunks[i], tenant_id, document_type, policy_number) ] ]

\* batch_size of upsert_chunks
UpsertBatchSize == 100

\* index.upsert(vectors=batch, namespace=ns): every vector of the batch is
\* stored under ns, replacing the vector of the same id there.
IndexUpsert(idx, batch, ns) ==
    LET ids == { batch[i].id : i \in 1..Len(batch) }
    IN  { v \in idx : ~(v.ns = ns /\ v.id \in ids) }
        \cup { [ns |-> ns, id |-> batch[i].id, metadata |-> batch[i].metadata] :
                 i \in 1..Len(batch) }

\* upsert_chunks as it would be with the failure of a batch swallowed
RECURSIVE UpsertFromSkipsFailedBatch(_, _, _, _, _)
UpsertFromSkipsFailedBatch(idx, vectors, i, ns, failAt) ==
    IF i > Len(vectors) THEN [index |-> idx, ok |-> TRUE, calls |-> <<>>]
    ELSE LET last == IF i + UpsertBatchSize - 1 < Len(vectors)
                     THEN i + UpsertBatchSize - 1 ELSE Len(vectors)
             sent == IF failAt = ((i - 1) \div UpsertBatchSize) + 1 THEN idx
                     ELSE IndexUpsert(idx, SubSeq(vectors, i, last), ns)
             rest == UpsertFromSkipsFailedBatch(sent, vectors, last + 1, ns, failAt)
         IN  [rest EXCEPT !.calls = <<last - i + 1>> \o @]

\* The batch loop of upsert_chunks from vector i on; the index call of batch
\* number failAt raises (0: none does) and stores nothing. Gives the index,
\* whether the function returned, and the size of the batch of every index
\* call made, in order.
RECURSIVE UpsertFrom(_, _, _, _, _)
UpsertFrom(idx, vectors, i, ns, failAt) ==
    IF i > Len(vectors) THEN [index |-> idx, ok |-> TRUE, calls |-> <<>>]
    ELSE LET last == IF i + UpsertBatchSize - 1 < Len(vectors)
                     THEN i + UpsertBatchSize - 1 ELSE Len(vectors)
         IN  IF failAt = ((i - 1) \div UpsertBatchSize) + 1
             THEN [index |-> idx, ok |-> FALSE, calls |-> <<last - i + 1>>]
             ELSE LET rest == UpsertFrom(IndexUpsert(idx, SubSeq(vectors, i, last), ns),
                                         vectors, last + 1, ns, failAt)
                  IN  [rest EXCEPT !.calls = <<last - i + 1>> \o @]

\* how many index calls upsert_chunks makes for n vectors
NumBatches(n) == (n + UpsertBatchSize - 1) \div UpsertBatchSize

\* The filter of search_policy. A filter maps a metadata key to the value it
\* must equal, or to None when the key is not filtered on.
PolicyFilterNoPolicy(policy_number) ==
    [document_type |-> "policy", policy_number |-> None, communication_type |-> None]

PolicyFilter(policy_number) ==
    [document_type |-> "policy", policy_number |-> policy_number,
     communication_type |-> None]

\* The filter_dict of search_communications
CommunicationsFilterReplaced(communication_type) ==
    IF communication_type # None /\ communication_type # ""
    THEN [document_type |-> None, policy_number |-> None,
          communication_type |-> communication_type]
    ELSE [document_type |-> "communication", policy_number |-> None,
          communication_type |-> None]

CommunicationsFilter(communication_type) ==
    [document_type |-> "communication", policy_number |-> None,
     communication_type |-> IF communication_type # None /\ communication_type # ""
                            THEN communication_type ELSE None]

\* {"key": {"$eq": value}} for every filtered key: the key is in the metadata
\* and has that value
MatchesFilter(metadata, filter) ==
    /\ filter.document_type # None => metadata.document_type = filter.document_type
    /\ filter.policy_number # None => metadata.policy_number = filter.policy_number
    /\ filter.communication_type # None
          => metadata.communication_type = filter.communication_type

\* the vectors of S by similarity, highest first (ties: lower id first)
RECURSIVE Ranked(_)
Ranked(S) ==
    IF S = {} THEN <<>>
    ELSE LET best == CHOOSE v \in S : \A w \in S :
                        \/ Similarity(v.id) > Similarity(w.id)
                        \/ (Similarity(v.id) = Similarity(w.id) /\ v.id <= w.id)
         IN  <<best>> \o Ranked(S \ {best})

\* index.query(vector, top_k, namespace, filter, include_metadata=True)
IndexQuery(idx, q) ==
    LET hits == Ranked({ v \in idx : v.ns = q.namespace /\ MatchesFilter(v.metadata, q.filter) })
    IN  IF Len(hits) > q.top_k THEN SubSeq(hits, 1, q.top_k) ELSE hits

\* _parse_results: one RetrievedChunk per match
ParseResults(matches) ==
    [ i \in 1..Len(matches) |->
        [ chunk_id         |-> matches[i].id,
          policy_number    |-> matches[i].metadata.policy_number,
          document_type    |-> matches[i].metadata.document_type,
          similarity_score |-> Similarity(matches[i].id),
          metadata         |-> matches[i].metadata ] ]

\* the arguments search_policy gives index.query
PolicyQuery(tenant_id, policy_number) ==
    [top_k |-> top_k_retrieval, namespace |-> tenant_id, filter |-> PolicyFilter(policy_number)]

\* the arguments search_communications gives index.query
CommunicationsQuery(tenant_id, communication_type) ==
    [top_k |-> top_k_retrieval, namespace |-> tenant_id,
     filter |-> CommunicationsFilter(communication_type)]

\* the body of search_policy
SearchPolicy(idx, tenant_id, policy_number) ==
    ParseResults(IndexQuery(idx, PolicyQuery(tenant_id, policy_number)))

\* the body of search_communications
SearchCommunications(idx, tenant_id, communication_type) ==
    ParseResults(IndexQuery(idx, CommunicationsQuery(tenant_id, communication_type)))

\* The invocations of a wrapped index function: k failures with error e,
\* then a success.
FailThenOk(k, e) ==
    [ i \in 1..(k + 1) |->
        IF i <= k THEN [ok |-> FALSE, val |-> None, err |-> e]
        ELSE [ok |-> TRUE, val |-> "a", err |-> None] ]

\* max_retries of upsert_chunks, search_policy and search_communications
IndexMaxRetries == 2

\* base_delay of search_policy and search_communications (0.5 s)
SearchBaseDelay == 5

SearchTiming == [base_delay |-> SearchBaseDelay, max_delay |-> DefaultMaxDelay]

\* the variables SpecIndex leaves alone
otherThanIndex ==
    <<limiter, trace, request, pc, response, searches, calls, db, session, storage, jobs, seg>>

InitIndex ==
    /\ rt = Idle
    /\ trace = <<>>
    /\ index = {}
    /\ upserted = {}
    /\ nextId = 1
    /\ found = [kind |-> None]
    /\ request = None
    /\ pc = "index"
    /\ response = None
    /\ searches = <<>>
    /\ calls = None
    /\ db = {}
    /\ session = None
    /\ storage = {}
    /\ jobs = 0
    /\ limiter = None
    /\ seg = None

\* Whether the wrapper of an index function can end by returning (TRUE) or
\* by raising (FALSE): every way its invocations can fail and succeed.
WrappedEndings ==
    { RunWrapped(NewFrame(IndexMaxRetries, SearchTiming, DefaultAllow), FailThenOk(k, e)).state = "returned" :
        k \in 0..(IndexMaxRetries + 1), e \in IndexErrors }

\* A call of upsert_chunks, retries included: the invocations that fail do so
\* in their index call, and the one that succeeds writes every batch.
UpsertChunks ==
    /\ pc = "index"
    /\ found.kind = None
    /\ \E n \in 1..MaxChunks :
        /\ nextId + n - 1 <= MaxChunks
        /\ \E tenant_id \in Tenants, document_type \in DocumentTypes,
              policy_number \in PolicyNumbers \cup {None},
              ct \in CommunicationTypes \cup {None}, returned \in WrappedEndings :
            LET chunks  == ChunkList(nextId, n, ct)
                vectors == Vectors(chunks, tenant_id, document_type, policy_number)
                ns      == UpsertNamespace(tenant_id)
                run     == UpsertFrom(index, vectors, 1, ns,
                                      IF returned THEN 0 ELSE NumBatches(n))
            IN  /\ nextId' = nextId + n
                /\ index' = run.index
                /\ upserted' = upserted \cup
                      { [id |-> vectors[i].id, tenant_id |-> tenant_id,
                         document_type |-> document_type, policy_number |-> policy_number,
                         communication_type |-> ct] :
                        i \in { j \in 1..n : \E v \in run.index :
                                                v.id = vectors[j].id /\ v.ns = ns } }
                /\ found' = [kind |-> "upsert", tenant_id |-> tenant_id,
                             policy_number |-> policy_number, communication_type |-> ct,
                             returned |-> returned, chunks |-> <<>>]
    /\ UNCHANGED rt
    /\ UNCHANGED otherThanIndex

\* A call of search_policy, retries included
SearchPolicyCall ==
    /\ pc = "index"
    /\ found.kind = None
    /\ \E tenant_id \in Tenants, policy_number \in PolicyNumbers, returned \in WrappedEndings :
        found' = [kind |-> "policy", tenant_id |-> tenant_id,
                  policy_number |-> policy_number, communication_type |-> None,
                  returned |-> returned,
                  chunks |-> IF returned THEN SearchPolicy(index, tenant_id, policy_number)
                             ELSE <<>>]
    /\ UNCHANGED <<rt, index, upserted, nextId>>
    /\ UNCHANGED otherThanIndex

\* A call of search_communications, retries included
SearchCommunicationsCall ==
    /\ pc = "index"
    /\ found.kind = None
    /\ \E tenant_id \in Tenants, ct \in CommunicationTypes \cup {None},
          returned \in WrappedEndings :
        found' = [kind |-> "communications", tenant_id |-> tenant_id,
                  policy_number |-> None, communication_type |-> ct,
                  returned |-> returned,
                  chunks |-> IF returned THEN SearchCommunications(index, tenant_id, ct)
                             ELSE <<>>]
    /\ UNCHANGED <<rt, index, upserted, nextId>>
    /\ UNCHANGED otherThanIndex

\* The caller of the retrieval service takes the result (or the exception)
CallerResumes ==
    /\ pc = "index"
    /\ found.kind # None
    /\ found' = [kind |-> None]
    /\ UNCHANGED <<rt, index, upserted, nextId>>
    /\ UNCHANGED otherThanIndex

NextIndex == UpsertChunks \/ SearchPolicyCall \/ SearchCommunicationsCall \/ CallerResumes

SpecIndex == InitIndex /\ [][NextIndex]_vars

(***************************************************************************)
(* query_orchestrator.py                                                   *)
(***************************************************************************)

\* _no_results_response: the fixed answer
NoResultsAnswer == "I cannot find information related to your question in the available documents."

\* _generate_answer: the fixed answer when generation failed
DegradedAnswer == "I encountered an error while processing your question. Please try again."

\* settings.top_k_rerank
top_k_rerank == 5

\* max_retries of embed_text
EmbedMaxRetries == 3

\* max_retries, base_delay (2.0 s) and max_delay (15.0 s) of
\* _generate_anthropic and _generate_openai
GenerateMaxRetries == 2

GenerateBaseDelay == 20

GenerateMaxDelay == 150

GenerateTiming == [base_delay |-> GenerateBaseDelay, max_delay |-> GenerateMaxDelay]

\* the failures of the embedding and generation providers
ProviderErrors ==
    { e \in ErrorPool : e.kind \in {"RateLimitError", "ValueError"} }

\* the exception field of a response that carries none
NoError == [err |-> [kind |-> None, status_code |-> NoStatus, status |-> NoStatus], at |-> 0]

\* if not retrieved_chunks
NoMatchNever(chunks) == FALSE

NoMatch(chunks) == chunks = <<>>

RECURSIVE InsertByScoreBeforeEquals(_, _)
InsertByScoreBeforeEquals(s, x) ==
    IF s = <<>> THEN <<x>>
    ELSE IF x.similarity_score >= Head(s).similarity_score THEN <<x>> \o s
    ELSE <<Head(s)>> \o InsertByScoreBeforeEquals(Tail(s), x)

\* s with x put before the first element it outscores (after its equals)
RECURSIVE InsertByScore(_, _)
InsertByScore(s, x) ==
    IF s = <<>> THEN <<x>>
    ELSE IF x.similarity_score > Head(s).similarity_score THEN <<x>> \o s
    ELSE <<Head(s)>> \o InsertByScore(Tail(s), x)

\* sorted(chunks, key=lambda c: c.similarity_score, reverse=True): stable
RECURSIVE SortedByScore(_)
SortedByScore(chunks) ==
    IF chunks = <<>> THEN <<>>
    ELSE InsertByScore(SortedByScore(SubSeq(chunks, 1, Len(chunks) - 1)),
                       chunks[Len(chunks)])

\* top_chunks: the sorted candidates cut to top_k_rerank
TopChunks(chunks) ==
    LET sorted == SortedByScore(chunks)
    IN  IF Len(sorted) > top_k_rerank THEN SubSeq(sorted, 1, top_k_rerank) ELSE sorted

RECURSIVE SumScores(_)
SumScores(chunks) ==
    IF chunks = <<>> THEN 0 ELSE Head(chunks).similarity_score + SumScores(Tail(chunks))

CalculateConfidenceTopOnly(chunks) ==
    IF chunks = <<>> THEN 0 ELSE 1000 * chunks[1].similarity_score

\* _calculate_confidence, in units of 0.0001 (scores are in tenths):
\* round(top_score * 0.6 + avg_score * 0.4, 4)
CalculateConfidence(chunks) ==
    IF chunks = <<>> THEN 0
    ELSE LET n == Len(chunks)
         IN  600 * chunks[1].similarity_score + (2 * 400 * SumScores(chunks) + n) \div (2 * n)

\* _extract_citations: one citation per chunk, in order
ExtractCitations(chunks) ==
    [ i \in 1..Len(chunks) |->
        [chunk_id |-> chunks[i].chunk_id, similarity_score |-> chunks[i].similarity_score] ]

\* a handler's outcome: an HTTP status, the fields of the result when there is
\* one, and the exception when one was raised
Result(status, answer, citations, confidence, raised) ==
    [status |-> status, answer |-> answer, citations |-> citations,
     confidence |-> confidence, raised |-> raised]

\* _no_results_response
NoResultsResponseScored == Result(200, NoResultsAnswer, <<>>, 6000, NoError)

NoResultsResponse == Result(200, NoResultsAnswer, <<>>, 0, NoError)

\* The status the exception handlers give an exception that leaves a route
ExceptionStatus(e) == IF "ValueError" \in Bases(e.err.kind) THEN 400 ELSE 500

\* An exception of embed_text or of the search leaves query_policy /
\* query_communications and the route: there is no result.
SwallowedAsNoMatch(e) == NoResultsResponse

Propagated(e) == Result(ExceptionStatus(e), None, <<>>, 0, e)

\* _generate_answer: the text of the provider, or the fixed sentence when the
\* wrapped provider call raised
GenerateAnswerReraises(frame) ==
    IF frame.state = "returned" THEN [answer |-> frame.result.val, raised |-> NoError]
    ELSE [answer |-> None, raised |-> frame.raised]

GenerateAnswer(frame) ==
    IF frame.state = "returned" THEN [answer |-> frame.result.val, raised |-> NoError]
    ELSE [answer |-> DegradedAnswer, raised |-> NoError]

BuildResponseDegradedEmpty(generated, top_chunks) ==
    IF generated.raised # NoError THEN Propagated(generated.raised)
    ELSE IF generated.answer = DegradedAnswer
    THEN Result(200, generated.answer, <<>>, 0, NoError)
    ELSE Result(200, generated.answer, ExtractCitations(top_chunks),
                CalculateConfidence(top_chunks), NoError)

\* The result query_policy / query_communications build after generation
BuildResponse(generated, top_chunks) ==
    IF generated.raised # NoError THEN Propagated(generated.raised)
    ELSE Result(200, generated.answer, ExtractCitations(top_chunks),
                CalculateConfidence(top_chunks), NoError)

(***************************************************************************)
(* The routes: api/routes/query.py, api/routes/widget.py, dependencies.py  *)
(***************************************************************************)

\* create_policyholder_token
PolicyholderToken(tenant_id, policy_number) ==
    [valid |-> TRUE, sub |-> policy_number, tenant_id |-> tenant_id,
     role |-> "policyholder", type |-> "policyholder_session"]

\* create_staff_token
StaffToken(tenant_id, role) ==
    [valid |-> TRUE, sub |-> "staff-user", tenant_id |-> tenant_id,
     role |-> role, type |-> "staff_session"]

\* a token verify_token gives no claims for
InvalidToken ==
    [valid |-> FALSE, sub |-> None, tenant_id |-> None, role |-> None, type |-> None]

Tokens ==
    { PolicyholderToken(t, p) : t \in Tenants, p \in PolicyNumbers }
    \cup { StaffToken(t, r) : t \in Tenants, r \in {"admin", "staff"} }
    \cup { InvalidToken }

LlmProviders == {"anthropic", "openai"}

\* The requests: the route, the claims of the token sent, the URL's
\* policy_number or tenant_id, and the body's fields.
Requests ==
    { [route |-> "policy", token |-> tok, policy_number |-> p, url_tenant |-> None,
       communication_type |-> None] : tok \in Tokens, p \in PolicyNumbers }
    \cup
    { [route |-> "communications", token |-> tok, policy_number |-> None,
       url_tenant |-> None, communication_type |-> ct] :
        tok \in Tokens, ct \in CommunicationTypes \cup {None} }
    \cup
    { [route |-> "widget", token |-> tok, policy_number |-> p, url_tenant |-> t,
       communication_type |-> None] :
        tok \in Tokens, p \in PolicyNumbers, t \in Tenants }

\* a route's decision: an HTTP error, or the scope the orchestrator is called with
Denied(status) ==
    [status |-> status, kind |-> None, tenant_id |-> None, policy_number |-> None,
     communication_type |-> None]

Scope(kind, tenant_id, policy_number, communication_type) ==
    [status |-> 0, kind |-> kind, tenant_id |-> tenant_id,
     policy_number |-> policy_number, communication_type |-> communication_type]

\* query_policy (route): policyholders may only query their own policy
WrongPolicyAllowed(claims, policy_number) == FALSE

WrongPolicy(claims, policy_number) ==
    claims.role = "policyholder" /\ claims.sub # policy_number

\* require_staff
IsStaff(claims) == claims.role \in {"admin", "staff"}

\* POST /policies/{policy_number}/query with its dependencies
\* get_current_user and get_tenant_id
PolicyRoute(req) ==
    IF ~req.token.valid THEN Denied(401)
    ELSE IF req.token.tenant_id = None \/ req.token.tenant_id = "" THEN Denied(403)
    ELSE IF WrongPolicy(req.token, req.policy_number) THEN Denied(403)
    ELSE Scope("policy", req.token.tenant_id, req.policy_number, None)

\* POST /communications/query with its dependencies require_staff and
\* get_tenant_id
CommunicationsRoute(req) ==
    IF ~req.token.valid THEN Denied(401)
    ELSE IF ~IsStaff(req.token) THEN Denied(403)
    ELSE IF req.token.tenant_id = None \/ req.token.tenant_id = "" THEN Denied(403)
    ELSE Scope("communications", req.token.tenant_id, None, req.communication_type)

\* POST /widget/{tenant_id}/query
WidgetRoute(req) ==
    IF ~req.token.valid \/ req.token.type # "policyholder_session" THEN Denied(401)
    ELSE IF req.token.tenant_id # req.url_tenant THEN Denied(403)
    ELSE IF req.token.sub # req.policy_number THEN Denied(403)
    ELSE Scope("policy", req.url_tenant, req.policy_number, None)

(***************************************************************************)
(* One query request, from the route to the response                      *)
(***************************************************************************)

\* The upsert_chunks calls that filled the index before the request: two
\* tenants hold a policy P1, t1 also holds a letter and a policy P2.
SampleUploads ==
    << [tenant_id |-> "t1", document_type |-> "policy", policy_number |-> "P1",
        communication_type |-> None, n |-> 2],
       [tenant_id |-> "t2", document_type |-> "policy", policy_number |-> "P1",
        communication_type |-> None, n |-> 1],
       [tenant_id |-> "t1", document_type |-> "communication", policy_number |-> None,
        communication_type |-> "letter", n |-> 1],
       [tenant_id |-> "t1", document_type |-> "policy", policy_number |-> "P2",
        communication_type |-> None, n |-> 1] >>

\* the index after the upsert_chunks calls `uploads`, none of which failed
RECURSIVE IndexAfter(_, _, _)
IndexAfter(idx, uploads, first) ==
    IF uploads = <<>> THEN idx
    ELSE LET u == Head(uploads)
             vectors == Vectors(ChunkList(first, u.n, u.communication_type),
                                u.tenant_id, u.document_type, u.policy_number)
         IN  IndexAfter(UpsertFrom(idx, vectors, 1, UpsertNamespace(u.tenant_id), 0).index,
                        Tail(uploads), first + u.n)

SampleIndexes ==
    { IndexAfter({}, SubSeq(SampleUploads, 1, k), 1) : k \in 0..Len(SampleUploads) }

\* the variables SpecQuery leaves alone
otherThanQuery ==
    <<limiter, trace, index, upserted, nextId, request, db, session, storage, jobs, seg>>

InitQuery ==
    /\ rt = Idle
    /\ trace = <<>>
    /\ index \in SampleIndexes
    /\ upserted = {}
    /\ nextId = 1
    /\ found = [kind |-> None]
    /\ \E req \in Requests, provider \in LlmProviders :
        request = [req |-> req, provider |-> provider]
    /\ pc = "route"
    /\ response = Result(0, None, <<>>, 0, NoError)
    /\ searches = <<>>
    /\ calls = [orchestrator |-> 0, embed |-> 0, search |-> 0, generate |-> 0, audit |-> 0]
    /\ db = {}
    /\ session = None
    /\ storage = {}
    /\ jobs = 0
    /\ limiter = None
    /\ seg = None

\* A route has decided: it answers with an HTTP error, or calls the
\* orchestrator with the scope, which starts by embedding the question.
Enter(decision) ==
    IF decision.status # 0
    THEN /\ response' = Result(decision.status, None, <<>>, 0, NoError)
         /\ pc' = "responded"
         /\ UNCHANGED <<rt, found, searches, calls>>
    ELSE /\ found' = [kind |-> decision.kind, tenant_id |-> decision.tenant_id,
                      policy_number |-> decision.policy_number,
                      communication_type |-> decision.communication_type,
                      embedded |-> FALSE, returned |-> FALSE,
                      chunks |-> <<>>, top |-> <<>>]
         /\ calls' = [calls EXCEPT !.orchestrator = 1]
         /\ rt' = NewFrame(EmbedMaxRetries, DefaultTiming, DefaultAllow)
         /\ pc' = "embed"
         /\ UNCHANGED <<response, searches>>

PolicyQueryRoute ==
    /\ pc = "route"
    /\ request.req.route = "policy"
    /\ Enter(PolicyRoute(request.req))
    /\ UNCHANGED otherThanQuery

CommunicationsQueryRoute ==
    /\ pc = "route"
    /\ request.req.route = "communications"
    /\ Enter(CommunicationsRoute(request.req))
    /\ UNCHANGED otherThanQuery

WidgetQueryRoute ==
    /\ pc = "route"
    /\ request.req.route = "widget"
    /\ Enter(WidgetRoute(request.req))
    /\ UNCHANGED otherThanQuery

\* what one invocation of a provider call can do
ProviderOutcomes(values, errors) ==
    { [ok |-> TRUE, val |-> v, err |-> None] : v \in values }
    \cup { [ok |-> FALSE, val |-> None, err |-> e] : e \in errors }

\* Step 1: one invocation of embed_text by its retry wrapper
EmbedText ==
    /\ pc = "embed"
    /\ rt.state = "running"
    /\ \E out \in ProviderOutcomes({"a"}, ProviderErrors) :
        LET frame == Attempt(rt, out)
        IN  /\ calls' = [calls EXCEPT !.embed = @ + 1]
            /\ CASE frame.state = "running" ->
                      /\ rt' = frame
                      /\ UNCHANGED <<found, pc, response>>
                 [] frame.state = "returned" ->
                      /\ rt' = NewFrame(IndexMaxRetries, SearchTiming, DefaultAllow)
                      /\ found' = [found EXCEPT !.embedded = TRUE]
                      /\ pc' = "retrieve"
                      /\ UNCHANGED response
                 [] frame.state = "raised" ->
                      /\ rt' = frame
                      /\ response' = Propagated(frame.raised)
                      /\ pc' = "responded"
                      /\ UNCHANGED found
    /\ UNCHANGED searches
    /\ UNCHANGED otherThanQuery

\* Steps 2 and 3: one invocation of the search by its retry wrapper, issuing
\* the index query q; when it returns, the NO_MATCH short-circuit (which the
\* route records in the audit log and returns) or the selection of top_chunks.
Retrieve(q, out) ==
    LET frame == Attempt(rt, out)
        chunks == ParseResults(IndexQuery(index, q))
    IN  /\ searches' = Append(searches, q)
        /\ calls' = [calls EXCEPT !.search = @ + 1,
                                  !.audit = IF frame.state = "returned" /\ NoMatch(chunks)
                                            THEN 1 ELSE @]
        /\ CASE frame.state = "running" ->
                  /\ rt' = frame
                  /\ UNCHANGED <<found, pc, response>>
             [] frame.state = "returned" /\ NoMatch(chunks) ->
                  /\ rt' = frame
                  /\ found' = [found EXCEPT !.returned = TRUE, !.chunks = chunks]
                  /\ response' = NoResultsResponse
                  /\ pc' = "responded"
             [] frame.state = "returned" /\ ~NoMatch(chunks) ->
                  /\ rt' = NewFrame(GenerateMaxRetries, GenerateTiming, DefaultAllow)
                  /\ found' = [found EXCEPT !.returned = TRUE, !.chunks = chunks,
                                            !.top = TopChunks(chunks)]
                  /\ pc' = "generate"
                  /\ UNCHANGED response
             [] frame.state = "raised" ->
                  /\ rt' = frame
                  /\ response' = Propagated(frame.raised)
                  /\ pc' = "responded"
                  /\ UNCHANGED found

RetrievePolicy ==
    /\ pc = "retrieve"
    /\ found.kind = "policy"
    /\ rt.state = "running"
    /\ \E out \in ProviderOutcomes({"a"}, IndexErrors) :
        Retrieve(PolicyQuery(found.tenant_id, found.policy_number), out)
    /\ UNCHANGED otherThanQuery

RetrieveCommunications ==
    /\ pc = "retrieve"
    /\ found.kind = "communications"
    /\ rt.state = "running"
    /\ \E out \in ProviderOutcomes({"a"}, IndexErrors) :
        Retrieve(CommunicationsQuery(found.tenant_id, found.communication_type), out)
    /\ UNCHANGED otherThanQuery

\* Steps 5 and 6: one invocation of the generation provider by its retry
\* wrapper; when the wrapper ends, _generate_answer and the response, which
\* the route records in the audit log and returns.
Generate ==
    /\ rt.state = "running"
    /\ \E out \in ProviderOutcomes(Values, ProviderErrors) :
        LET frame == Attempt(rt, out)
            built == BuildResponse(GenerateAnswer(frame), found.top)
        IN  /\ calls' = [calls EXCEPT !.generate = @ + 1,
                                      !.audit = IF frame.state # "running"
                                                   /\ built.raised = NoError
                                                THEN 1 ELSE @]
            /\ rt' = frame
            /\ IF frame.state = "running"
               THEN UNCHANGED <<pc, response>>
               ELSE /\ response' = built
                    /\ pc' = "responded"
    /\ UNCHANGED <<found, searches>>
    /\ UNCHANGED otherThanQuery

GenerateAnthropic ==
    /\ pc = "generate"
    /\ request.provider = "anthropic"
    /\ Generate

GenerateOpenai ==
    /\ pc = "generate"
    /\ request.provider = "openai"
    /\ Generate

NextQuery ==
    \/ PolicyQueryRoute
    \/ CommunicationsQueryRoute
    \/ WidgetQueryRoute
    \/ EmbedText
    \/ RetrievePolicy
    \/ RetrieveCommunications
    \/ GenerateAnthropic
    \/ GenerateOpenai

SpecQuery == InitQuery /\ [][NextQuery]_vars

(***************************************************************************)
(* Claims about the retrieval service, checked under SpecIndex.            *)
(***************************************************************************)

\* the chunks the last search returned
Returned == { found.chunks[i] : i \in 1..Len(found.chunks) }

\* C1: search_policy(tenant A, policy P) returns only chunks that were
\* upserted under tenant A with policy_number P, and never a chunk upserted by
\* another tenant, whatever the other tenants upserted under the same policy
\* number.
C1_PolicySearchIsolation ==
    (pc = "index" /\ found.kind = "policy") =>
        \A r \in Returned :
            /\ \E u \in upserted :
                /\ u.id = r.chunk_id
                /\ u.tenant_id = found.tenant_id
                /\ u.policy_number = found.policy_number
            /\ \A u \in upserted : u.id = r.chunk_id => u.tenant_id = found.tenant_id
            /\ r.metadata.tenant_id = found.tenant_id
            /\ r.policy_number = found.policy_number

C1_Witness ==
    /\ pc = "index"
    /\ found.kind = "policy"
    /\ Returned # {}
    /\ \E u \in upserted :
        /\ u.tenant_id # found.tenant_id
        /\ u.policy_number = found.policy_number
        /\ u.document_type = "policy"

\* C2: search_policy never returns a chunk that was upserted with
\* document_type "communication", and search_communications, with or without
\* a communication_type filter, never returns a chunk that was upserted with
\* document_type "policy".
C2_DocumentTypeIsolation ==
    pc = "index" =>
        /\ found.kind = "policy" =>
            \A r \in Returned : \A u \in upserted :
                u.id = r.chunk_id => u.document_type # "communication"
        /\ found.kind = "communications" =>
            \A r \in Returned : \A u \in upserted :
                u.id = r.chunk_id => u.document_type # "policy"

C2_Witness ==
    /\ pc = "index"
    /\ found.kind = "communications"
    /\ found.communication_type # None
    /\ Returned # {}
    /\ \E u \in upserted :
        /\ u.tenant_id = found.tenant_id
        /\ u.document_type = "policy"
        /\ u.communication_type = found.communication_type

(***************************************************************************)
(* Claims about the routes and the orchestrator, checked under SpecQuery.  *)
(***************************************************************************)

\* a request is being served (the state is one of SpecQuery)
InQuery == pc \in {"route", "embed", "retrieve", "generate", "responded"}

\* the request carries the token of a policyholder
ByPolicyholder == request.req.token.valid /\ request.req.token.role = "policyholder"

\* C3: for a request authenticated as a policyholder with claims (tenant T,
\* sub P), every index query is made with namespace T, document_type policy
\* and policy_number P; a request for another policy or for the communications
\* query gets 403 and the orchestrator is not invoked, on the API routes and
\* on the widget route.
C3_PolicyholderScope ==
    (InQuery /\ ByPolicyholder) =>
        /\ \A i \in 1..Len(searches) :
            /\ searches[i].namespace = request.req.token.tenant_id
            /\ searches[i].filter.document_type = "policy"
            /\ searches[i].filter.policy_number = request.req.token.sub
        /\ (pc # "route" /\ (\/ request.req.route = "communications"
                             \/ request.req.policy_number # request.req.token.sub)) =>
            /\ pc = "responded"
            /\ response.status = 403
            /\ calls.orchestrator = 0
            /\ searches = <<>>

C3_Witness ==
    /\ InQuery
    /\ ByPolicyholder
    /\ request.req.route = "widget"
    /\ Len(searches) >= 1
    /\ found.returned
    /\ found.chunks # <<>>
    /\ \E v \in index :
        /\ v.ns # request.req.token.tenant_id
        /\ v.metadata.policy_number = request.req.token.sub

\* the search of the query has returned no chunk
RetrievedNothing ==
    InQuery /\ calls.orchestrator = 1 /\ found.returned /\ found.chunks = <<>>

\* C4: when retrieval returns zero chunks, the result has confidence 0.0, no
\* citations and the fixed "cannot find" answer, and the generation provider
\* is never invoked during the query.
C4_NoMatchShortCircuit ==
    RetrievedNothing =>
        /\ pc = "responded"
        /\ response.status = 200
        /\ response.confidence = 0
        /\ response.citations = <<>>
        /\ response.answer = NoResultsAnswer
        /\ response.raised = NoError
        /\ calls.generate = 0

C4_Witness ==
    /\ RetrievedNothing
    /\ pc = "responded"
    /\ index # {}

\* the three ways a query ends
EndsNoMatch ==
    /\ response.raised = NoError
    /\ calls.generate = 0
    /\ response.answer = NoResultsAnswer
    /\ found.returned
    /\ found.chunks = <<>>

EndsDone ==
    /\ response.raised = NoError
    /\ calls.generate > 0
    /\ response.answer # None
    /\ response.status = 200

EndsRaised ==
    /\ response.raised # NoError
    /\ response.answer = None
    /\ response.status # 200

\* C5: within one query the search is only called once the question is
\* embedded, the generation provider is only called once the search of the
\* same query has returned a non-empty result, a query that has not ended can
\* take a step, and a query that has ended did so in exactly one of NO_MATCH,
\* DONE or a raised error.
C5_EmbedRetrieveGenerate ==
    (InQuery /\ calls.orchestrator = 1) =>
        /\ calls.search > 0 => (found.embedded /\ calls.embed > 0)
        /\ calls.generate > 0 =>
              (calls.search > 0 /\ found.returned /\ found.chunks # <<>>)
        /\ pc # "responded" => ENABLED NextQuery
        /\ pc = "responded" =>
            /\ EndsNoMatch \/ EndsDone \/ EndsRaised
            /\ ~(EndsNoMatch /\ EndsDone)
            /\ ~(EndsNoMatch /\ EndsRaised)
            /\ ~(EndsDone /\ EndsRaised)

C5_Witness ==
    /\ InQuery
    /\ pc = "responded"
    /\ calls.embed > 1
    /\ calls.search > 1
    /\ calls.generate > 1
    /\ response.answer \in Values

\* the wrapped generation call of the query has raised
GenerationFailed == InQuery /\ calls.generate > 0 /\ rt.state = "raised"

\* C6: when the generation call fails on every attempt of its retry budget,
\* the query does not raise: it returns a result whose answer is exactly the
\* fixed degraded sentence.
C6_GenerationFailureDegrades ==
    GenerationFailed =>
        /\ pc = "responded"
        /\ response.status = 200
        /\ response.raised = NoError
        /\ response.answer = DegradedAnswer

C6_Witness ==
    /\ GenerationFailed
    /\ rt.invoked = GenerateMaxRetries + 1
    /\ pc = "responded"

\* the wrapped embedding or search call of the query has raised
EmbedOrSearchFailed ==
    InQuery /\ calls.orchestrator = 1 /\ rt.state = "raised" /\ ~found.returned

\* C7: when the embedding call or the search call fails after its retry
\* budget is exhausted, the query raises that error to its caller: there is no
\* result (neither the NO_MATCH answer nor the degraded one), and the
\* generation provider is never invoked.
C7_EmbedOrSearchFailurePropagates ==
    EmbedOrSearchFailed =>
        /\ pc = "responded"
        /\ rt.invoked = rt.max_retries + 1
        /\ response.raised = rt.raised
        /\ response.answer = None
        /\ response.citations = <<>>
        /\ response.status # 200
        /\ calls.generate = 0

C7_Witness ==
    /\ EmbedOrSearchFailed
    /\ found.embedded
    /\ calls.search = IndexMaxRetries + 1
    /\ pc = "responded"

(***************************************************************************)
(* Claims about retry_async, checked under SpecRetry.                      *)
(***************************************************************************)

\* The three retryability rules as the specification words them: the kind is
\* in the allow-set, or its name is a known transient-failure name, or it
\* carries one of the retryable status codes.
MatchesSomeRule(e, allow) ==
    \/ Bases(e.kind) \cap allow # {}
    \/ e.kind \in (OPENAI_RETRYABLE \cup ANTHROPIC_RETRYABLE \cup PINECONE_RETRYABLE)
    \/ (e.status_code \notin {NoStatus, 0} /\ e.status_code \in RetryableStatusCodes)
    \/ (e.status_code \in {NoStatus, 0} /\ e.status \notin {NoStatus, 0}
            /\ e.status \in RetryableStatusCodes)

\* invocation i failed with a retryable error
RetryableFailure(i) == ~trace[i].ok /\ MatchesSomeRule(trace[i].err, rt.allow)

\* C8: with max_retries >= 2, an operation that fails with a retryable error
\* on its first two invocations is retried both times, and when the third
\* invocation succeeds the wrapper returns the third invocation's result after
\* exactly three invocations and exactly two retry events (warning + sleep).
C8_TwoRetriesThenSuccess ==
    (pc = "retry" /\ rt.max_retries >= 2 /\ Len(trace) >= 1
        /\ \A i \in 1..Len(trace) : i <= 2 => RetryableFailure(i))
    => /\ Len(trace) <= 2 =>
            /\ rt.state = "running"
            /\ rt.invoked = Len(trace)
            /\ rt.sleeps = Len(trace)
            /\ rt.warnings = Len(trace)
       /\ (Len(trace) >= 3 /\ trace[3].ok) =>
            /\ Len(trace) = 3
            /\ rt.state = "returned"
            /\ rt.result = [val |-> trace[3].val, at |-> 3]
            /\ rt.invoked = 3
            /\ rt.sleeps = 2
            /\ rt.warnings = 2
            /\ rt.errors = 0

C8_Witness ==
    /\ pc = "retry"
    /\ rt.max_retries >= 2
    /\ Len(trace) = 3
    /\ RetryableFailure(1)
    /\ RetryableFailure(2)
    /\ trace[3].ok
    /\ rt.state = "returned"

\* C9: an operation whose first failure matches none of the three
\* retryability rules is invoked exactly once; that error is raised to the
\* caller, and no retry (sleep, warning) happens.
C9_NonRetryableRaisesAtOnce ==
    (pc = "retry" /\ Len(trace) >= 1 /\ ~trace[1].ok
        /\ ~MatchesSomeRule(trace[1].err, rt.allow))
    => /\ Len(trace) = 1
       /\ rt.invoked = 1
       /\ rt.state = "raised"
       /\ rt.raised = [err |-> trace[1].err, at |-> 1]
       /\ rt.sleeps = 0
       /\ rt.warnings = 0

C9_Witness ==
    /\ pc = "retry"
    /\ rt.max_retries >= 1
    /\ Len(trace) = 1
    /\ ~trace[1].ok
    /\ ~MatchesSomeRule(trace[1].err, rt.allow)
    /\ rt.state = "raised"

\* C10: with max_retries = N the wrapped operation is invoked at most N+1
\* times; while no more than N invocations have failed retryably the wrapper
\* keeps going, and when all N+1 invocations fail retryably the wrapper raises
\* the exception object of invocation N+1, after exactly N sleeps.
C10_BudgetAndLastError ==
    pc = "retry" =>
        /\ rt.invoked <= rt.max_retries + 1
        /\ rt.invoked = Len(trace)
        /\ (\A i \in 1..Len(trace) : RetryableFailure(i)) =>
            IF Len(trace) <= rt.max_retries
            THEN rt.state = "running" /\ rt.sleeps = Len(trace)
            ELSE /\ rt.state = "raised"
                 /\ rt.raised = [err |-> trace[rt.max_retries + 1].err,
                                 at |-> rt.max_retries + 1]
                 /\ rt.sleeps = rt.max_retries
                 /\ rt.invoked = rt.max_retries + 1

C10_Witness ==
    /\ pc = "retry"
    /\ rt.max_retries >= 2
    /\ Len(trace) = rt.max_retries + 1
    /\ \A i \in 1..Len(trace) : RetryableFailure(i)
    /\ trace[1].err # trace[Len(trace)].err
    /\ rt.state = "raised"

\* The three rules one by one, as the specification words them.
KindAllowed(e, allow) == Bases(e.kind) \cap allow # {}

TransientName(e) ==
    e.kind \in {"RateLimitError", "APIConnectionError", "APITimeoutError",
                "InternalServerError", "OverloadedError", "ServiceException",
                "PineconeException"}

CarriesRetryableCode(e) ==
    \E code \in {429, 500, 502, 503, 504} :
        \/ e.status_code = code
        \/ (e.status_code \in {NoStatus, 0} /\ e.status = code)

\* invocation i was followed by a retry: the wrapper went on after it
Retried(i) == Len(trace) > i \/ (Len(trace) = i /\ rt.state = "running")

\* C11: a failure that leaves retry budget is retried if and only if its kind
\* is in the allow-set, or its name is a known transient-failure name, or it
\* carries a status code in {429, 500, 502, 503, 504}; each rule suffices on
\* its own, and a failure matching none of them is not retried.
C11_RetryableIffSomeRule ==
    pc = "retry" =>
        \A i \in 1..Len(trace) :
            (~trace[i].ok /\ i <= rt.max_retries) =>
                /\ KindAllowed(trace[i].err, rt.allow) => Retried(i)
                /\ TransientName(trace[i].err) => Retried(i)
                /\ CarriesRetryableCode(trace[i].err) => Retried(i)
                /\ Retried(i) => \/ KindAllowed(trace[i].err, rt.allow)
                                 \/ TransientName(trace[i].err)
                                 \/ CarriesRetryableCode(trace[i].err)

\* three failures retried in a row, each by a different rule alone
C11_Witness ==
    /\ pc = "retry"
    /\ Len(trace) >= 3
    /\ \A i \in 1..3 : ~trace[i].ok /\ Retried(i)
    /\ KindAllowed(trace[1].err, rt.allow)
    /\ ~TransientName(trace[1].err) /\ ~CarriesRetryableCode(trace[1].err)
    /\ TransientName(trace[2].err)
    /\ ~KindAllowed(trace[2].err, rt.allow) /\ ~CarriesRetryableCode(trace[2].err)
    /\ CarriesRetryableCode(trace[3].err)
    /\ ~KindAllowed(trace[3].err, rt.allow) /\ ~TransientName(trace[3].err)

(***************************************************************************)
(* The upload and delete routes (api/routes/policies.py,                   *)
(* api/routes/communications.py), the database session they run in         *)
(* (db/session.py) and the object store (services/storage_service.py).     *)
(***************************************************************************)

\* The number of chunks process_pdf finds in an uploaded file: none (a PDF
\* without text), and one more than a batch of upsert_chunks holds.
DocSizes == {0, UpsertBatchSize + 1}

\* the policy numbers files are uploaded for
UploadPolicyNumbers == {"P1"}

\* batch_size of delete_document_vectors
DeleteBatchSize == 1000

\* index.delete(ids=batch, namespace=tenant_id)
IndexDelete(idx, ids, ns) == { v \in idx : ~(v.ns = ns /\ v.id \in ids) }

\* The batch loop of delete_document_vectors from id i on; the index call of
\* batch number failAt raises (0: none does). Gives the index, whether the
\* function returned, and how many index calls it made.
RECURSIVE DeleteFrom(_, _, _, _, _)
DeleteFrom(idx, chunk_ids, i, ns, failAt) ==
    IF i > Len(chunk_ids) THEN [index |-> idx, ok |-> TRUE, calls |-> 0]
    ELSE LET last == IF i + DeleteBatchSize - 1 < Len(chunk_ids)
                     THEN i + DeleteBatchSize - 1 ELSE Len(chunk_ids)
             ids  == { chunk_ids[j] : j \in i..last }
         IN  IF failAt = ((i - 1) \div DeleteBatchSize) + 1
             THEN [index |-> idx, ok |-> FALSE, calls |-> 1]
             ELSE LET rest == DeleteFrom(IndexDelete(idx, ids, ns), chunk_ids,
                                         last + 1, ns, failAt)
                  IN  [rest EXCEPT !.calls = @ + 1]

\* how many index calls delete_document_vectors makes for n ids
NumDeleteBatches(n) == (n + DeleteBatchSize - 1) \div DeleteBatchSize

\* s3_key="": the key of a file not stored yet
NoKey == [tenant_id |-> "", folder |-> "", policy_number |-> "", doc_id |-> 0]

\* Document(...): the row the upload routes create, status PROCESSING
NewDocument(id, tenant_id, document_type, policy_number, communication_type) ==
    [ id                 |-> id,
      tenant_id          |-> tenant_id,
      document_type      |-> document_type,
      status             |-> "processing",
      policy_number      |-> policy_number,
      communication_type |-> communication_type,
      s3_key             |-> NoKey,
      chunk_count        |-> 0,
      error_message      |-> None,
      chunks             |-> <<>> ]

\* for chunk in processed.chunks: db.add(DocumentChunk(...))
ChunkRows(chunks) ==
    [ i \in 1..Len(chunks) |->
        [chunk_index |-> chunks[i].chunk_index, pinecone_id |-> chunks[i].chunk_id] ]

\* _policy_key / _communication_key: the key of an uploaded file
StorageKey(doc) ==
    IF doc.document_type = "policy"
    THEN [tenant_id |-> doc.tenant_id, folder |-> "policies",
          policy_number |-> doc.policy_number, doc_id |-> 0]
    ELSE [tenant_id |-> doc.tenant_id, folder |-> "communications",
          policy_number |-> "", doc_id |-> doc.id]

\* delete_policy / delete_communication of the store: every key under the prefix
StorageDelete(keys, doc) == keys \ {StorageKey(doc)}

\* get_db after the route returned: session.commit() writes the unit of work
\* s, the row the route added or loaded and whether it deleted it
Commit(rows, s) ==
    IF s.deleted THEN { d \in rows : d.id # s.doc.id }
    ELSE { d \in rows : d.id # s.doc.id } \cup {s.doc}

\* get_db after the route raised: session.rollback(); nothing of the unit of
\* work reaches the tables
Rollback(rows, s) == rows

\* Step 5 of an upload: the chunk rows are added and the document is INDEXED
DocAfterUpsert(doc, chunks) ==
    [doc EXCEPT !.chunks = ChunkRows(chunks), !.status = "indexed"]

\* except Exception as e: doc.status = FAILED; doc.error_message = str(e)
DocAfterFailure(doc, e) ==
    [doc EXCEPT !.status = "failed", !.error_message = e.err.kind]

\* the response of a route: the HTTP status, and the status of the document
\* in the body when there is one
RouteResponse(status, doc_status) == [status |-> status, doc_status |-> doc_status]

\* the exception object of a call that is not under a retry wrapper
Exc(e) == [err |-> e, at |-> 1]

\* the failures of the object store and of the PDF extraction
StorageErrors == { e \in ErrorPool : e.kind \in {"ValueError"} }

\* the failures of the embedding provider and of the index during an upload
\* or a delete
EmbedErrors == { e \in ErrorPool : e.kind \in {"RateLimitError"} }

UpsertErrors == { e \in ErrorPool : e.kind \in {"ServiceException"} }

\* how many requests the model serves
MaxRequests == 2

\* the variables the upload and delete routes leave alone
otherThanUpload == <<limiter, found, searches, calls, seg>>

InitUpload ==
    /\ rt = Idle
    /\ trace = <<>>
    /\ index = {}
    /\ upserted = {}
    /\ nextId = 1
    /\ found = [kind |-> None]
    /\ request = None
    /\ pc = "idle"
    /\ response = RouteResponse(0, None)
    /\ searches = <<>>
    /\ calls = None
    /\ db = {}
    /\ session = None
    /\ storage = {}
    /\ jobs = 0
    /\ limiter = None
    /\ seg = None

\* The route raises: get_db rolls the session back and closes it, and the
\* client gets the error status.
RouteRaises(s, status) ==
    /\ db' = Rollback(db, s)
    /\ session' = None
    /\ response' = RouteResponse(status, None)
    /\ pc' = "responded"

\* The route returns: get_db commits the session and closes it.
RouteReturns(s, doc_status) ==
    /\ db' = Commit(db, s)
    /\ session' = None
    /\ response' = RouteResponse(200, doc_status)
    /\ pc' = "responded"

\* The except clause of an upload: the document is marked FAILED and
\* HTTPException(500) is raised.
UploadFails(e) ==
    RouteRaises([session EXCEPT !.doc = DocAfterFailure(@, e)], 500)

\* upload_policy / upload_communication up to the first await of the try
\* block: the file checks, the Document row (PROCESSING), db.add and flush.
UploadBegin(op, tenant_id, policy_number, communication_type, n, accepted) ==
    /\ pc = "idle"
    /\ jobs < MaxRequests
    /\ jobs' = jobs + 1
    /\ trace' = <<>>
    /\ rt' = Idle
    /\ request' = [op |-> op, tenant_id |-> tenant_id, policy_number |-> policy_number,
                   communication_type |-> communication_type, doc_id |-> jobs + 1,
                   first |-> nextId, n |-> n]
    /\ IF accepted
       THEN /\ session' = [doc |-> NewDocument(jobs + 1, tenant_id,
                                     IF op = "upload_policy" THEN "policy" ELSE "communication",
                                     policy_number, communication_type),
                           deleted |-> FALSE]
            /\ pc' = "storage"
            /\ UNCHANGED <<db, response>>
       ELSE RouteRaises(None, 400)
    /\ UNCHANGED <<index, upserted, nextId, storage>>
    /\ UNCHANGED otherThanUpload

UploadPolicyBegin ==
    \E tenant_id \in Tenants, policy_number \in UploadPolicyNumbers, n \in DocSizes,
       accepted \in BOOLEAN :
        UploadBegin("upload_policy", tenant_id, policy_number, None, n, accepted)

UploadCommunicationBegin ==
    \E tenant_id \in Tenants, ct \in CommunicationTypes, n \in DocSizes,
       accepted \in BOOLEAN :
        UploadBegin("upload_communication", tenant_id, None, ct, n, accepted)

\* Steps 1 and 2 of an upload: the file goes to the object store, then
\* process_pdf extracts the chunks (request.n of them, with fresh ids).
StoreAndProcess ==
    /\ pc = "storage"
    /\ \E stored \in BOOLEAN, processed \in BOOLEAN, e \in StorageErrors :
        /\ storage' = IF stored THEN storage \cup {StorageKey(session.doc)} ELSE storage
        /\ IF stored /\ processed
           THEN /\ session' = [session EXCEPT !.doc.s3_key = StorageKey(session.doc),
                                              !.doc.chunk_count = request.n]
                /\ nextId' = nextId + request.n
                /\ rt' = NewFrame(EmbedMaxRetries, DefaultTiming, DefaultAllow)
                /\ pc' = "embed"
                /\ UNCHANGED <<db, response>>
           ELSE /\ ~stored => processed
                /\ UploadFails(Exc(e))
                /\ UNCHANGED <<nextId, rt>>
    /\ UNCHANGED <<trace, index, upserted, request, jobs>>
    /\ UNCHANGED otherThanUpload

\* the chunks of the request's document, as process_pdf returned them
RequestChunks == ChunkList(request.first, request.n, request.communication_type)

\* Step 3 of an upload: one invocation of embed_texts by its retry wrapper;
\* for an empty list it returns at once, without a call of the provider.
EmbedTexts ==
    /\ pc = "embed"
    /\ rt.state = "running"
    /\ \E out \in ProviderOutcomes({"a"}, IF request.n = 0 THEN {} ELSE EmbedErrors) :
        LET frame == Attempt(rt, out)
        IN  CASE frame.state = "running" ->
                    /\ rt' = frame
                    /\ UNCHANGED <<pc, db, session, response>>
              [] frame.state = "returned" ->
                    /\ rt' = NewFrame(IndexMaxRetries, DefaultTiming, DefaultAllow)
                    /\ pc' = "upsert"
                    /\ UNCHANGED <<db, session, response>>
              [] frame.state = "raised" ->
                    /\ rt' = frame
                    /\ UploadFails(frame.raised)
    /\ UNCHANGED <<trace, index, upserted, nextId, request, storage, jobs>>
    /\ UNCHANGED otherThanUpload

\* Steps 4 and 5 of an upload: one invocation of upsert_chunks by its retry
\* wrapper, in which the index call of batch failAt raises e (0: none); when
\* the wrapper returns, the chunk rows, INDEXED, the response and the commit.
UpsertAttempt ==
    /\ pc = "upsert"
    /\ rt.state = "running"
    /\ \E failAt \in 0..NumBatches(request.n), e \in UpsertErrors :
        LET doc     == session.doc
            ns      == UpsertNamespace(request.tenant_id)
            vectors == Vectors(RequestChunks, request.tenant_id, doc.document_type,
                               request.policy_number)
            run     == UpsertFrom(index, vectors, 1, ns, failAt)
            out     == IF run.ok THEN [ok |-> TRUE, val |-> "a", err |-> None]
                       ELSE [ok |-> FALSE, val |-> None, err |-> e]
            frame   == Attempt(rt, out)
        IN  /\ index' = run.index
            /\ trace' = Append(trace, [call |-> "upsert", ok |-> run.ok, sizes |-> run.calls,
                                       err |-> IF run.ok THEN None ELSE e.kind])
            /\ rt' = frame
            /\ CASE frame.state = "running" -> UNCHANGED <<pc, db, session, response>>
                 [] frame.state = "returned" ->
                        RouteReturns([session EXCEPT !.doc = DocAfterUpsert(@, RequestChunks)],
                                     "indexed")
                 [] frame.state = "raised" -> UploadFails(frame.raised)
    /\ UNCHANGED <<upserted, nextId, request, storage, jobs>>
    /\ UNCHANGED otherThanUpload

\* select(Document).where(...): the rows a delete route looks for
PolicyRows(tenant_id, policy_number) ==
    { d \in db : d.policy_number = policy_number /\ d.tenant_id = tenant_id
                    /\ d.document_type = "policy" }

CommunicationRows(tenant_id, doc_id) ==
    { d \in db : d.id = doc_id /\ d.tenant_id = tenant_id
                    /\ d.document_type = "communication" }

\* chunk_ids = [row[0] for row in chunks_result.all() if row[0]]
ChunkIds(doc) == [ i \in 1..Len(doc.chunks) |-> doc.chunks[i].pinecone_id ]

\* delete_policy / delete_communication up to the call of
\* delete_document_vectors: scalar_one_or_none() gives the row, None (404) or
\* raises MultipleResultsFound.
DeleteBegin(op, tenant_id, policy_number, doc_id, rows) ==
    /\ pc = "idle"
    /\ jobs < MaxRequests
    /\ jobs' = jobs + 1
    /\ trace' = <<>>
    /\ rt' = Idle
    /\ request' = [op |-> op, tenant_id |-> tenant_id, policy_number |-> policy_number,
                   communication_type |-> None, doc_id |-> doc_id, first |-> 0, n |-> 0]
    /\ CASE rows = {} -> RouteRaises(None, 404)
         [] Cardinality(rows) > 1 -> RouteRaises(None, 500)
         [] OTHER ->
              LET doc == CHOOSE d \in rows : TRUE
              IN  /\ session' = [doc |-> doc, deleted |-> FALSE]
                  /\ pc' = IF Len(ChunkIds(doc)) > 0 THEN "delete_vectors" ELSE "delete_storage"
                  /\ UNCHANGED <<db, response>>
    /\ UNCHANGED <<index, upserted, nextId, storage>>
    /\ UNCHANGED otherThanUpload

DeletePolicyBegin ==
    \E tenant_id \in Tenants, policy_number \in PolicyNumbers :
        DeleteBegin("delete_policy", tenant_id, policy_number, 0,
                    PolicyRows(tenant_id, policy_number))

DeleteCommunicationBegin ==
    \E tenant_id \in Tenants, doc_id \in 1..MaxRequests :
        DeleteBegin("delete_communication", tenant_id, None, doc_id,
                    CommunicationRows(tenant_id, doc_id))

\* delete_document_vectors, called by the route without a retry wrapper: the
\* index call of batch failAt raises e (0: none), which leaves the route.
DeleteVectors ==
    /\ pc = "delete_vectors"
    /\ LET ids == ChunkIds(session.doc)
       IN  \E failAt \in 0..NumDeleteBatches(Len(ids)), e \in UpsertErrors :
            LET run == DeleteFrom(index, ids, 1, request.tenant_id, failAt)
            IN  /\ index' = run.index
                /\ trace' = Append(trace, [call |-> "delete", ok |-> run.ok,
                                           sizes |-> <<run.calls>>,
                                           err |-> IF run.ok THEN None ELSE e.kind])
                /\ IF run.ok
                   THEN /\ pc' = "delete_storage"
                        /\ UNCHANGED <<db, session, response>>
                   ELSE RouteRaises(session, 500)
    /\ UNCHANGED <<rt, upserted, nextId, request, storage, jobs>>
    /\ UNCHANGED otherThanUpload

\* The rest of a delete route: the files leave the object store, db.delete(doc)
\* (which cascades to the chunk rows), the response and the commit.
DeleteStorageAndRow ==
    /\ pc = "delete_storage"
    /\ \E deleted \in BOOLEAN :
        IF deleted
        THEN /\ storage' = StorageDelete(storage, session.doc)
             /\ RouteReturns([session EXCEPT !.deleted = TRUE], None)
        ELSE /\ RouteRaises(session, 500)
             /\ UNCHANGED storage
    /\ UNCHANGED <<rt, trace, index, upserted, nextId, request, jobs>>
    /\ UNCHANGED otherThanUpload

\* The response has been sent and the locals of the request are gone: the
\* next request can be served
RequestDone ==
    /\ pc = "responded"
    /\ pc' = "idle"
    /\ rt' = Idle
    /\ trace' = <<>>
    /\ request' = None
    /\ response' = RouteResponse(0, None)
    /\ UNCHANGED <<index, upserted, nextId, db, session, storage, jobs>>
    /\ UNCHANGED otherThanUpload

NextUpload ==
    \/ UploadPolicyBegin
    \/ UploadCommunicationBegin
    \/ StoreAndProcess
    \/ EmbedTexts
    \/ UpsertAttempt
    \/ DeletePolicyBegin
    \/ DeleteCommunicationBegin
    \/ DeleteVectors
    \/ DeleteStorageAndRow
    \/ RequestDone

SpecUpload == InitUpload /\ [][NextUpload]_vars

(***************************************************************************)
(* Claims about the upload and delete routes, checked under SpecUpload.    *)
(***************************************************************************)

UploadOps == {"upload_policy", "upload_communication"}

DeleteOps == {"delete_policy", "delete_communication"}

\* an upload request is being served, or has just been answered
InUpload == pc \in {"storage", "embed", "upsert", "responded"} /\ request.op \in UploadOps

\* the committed row of the request's document, if there is one
RequestRows == { d \in db : d.id = request.doc_id }

RECURSIVE SumSizes(_)
SumSizes(sizes) == IF sizes = <<>> THEN 0 ELSE Head(sizes) + SumSizes(Tail(sizes))

\* every chunk of the request's document is a vector of the tenant's namespace
AllChunksInIndex ==
    LET ids == { v.id : v \in { w \in index : w.ns = request.tenant_id } }
    IN  \A i \in 1..request.n : request.first + i - 1 \in ids

\* C12: every external call - also the index delete - runs under the retry
\* executor: a request in which the only index call made has failed with a
\* transient error has not ended; the call is tried again.
C12_TransientFailureIsRetried ==
    ~ /\ pc = "responded"
      /\ Len(trace) = 1
      /\ ~trace[1].ok
      /\ trace[1].err \in {"ServiceException", "PineconeException"}

\* C13: while an upload is in progress its document is not INDEXED, and
\* when the upload has committed an INDEXED document, the last invocation of
\* upsert_chunks has returned normally after sending every chunk, and every
\* chunk of the document is in the index; an upload that ended in an error has
\* committed no INDEXED document.
C13_IndexedOnlyAfterUpsert ==
    InUpload =>
        /\ pc # "responded" => session.doc.status = "processing"
        /\ \A d \in RequestRows :
              d.status = "indexed" =>
                /\ pc = "responded" /\ response.status = 200
                /\ Len(trace) >= 1
                /\ trace[Len(trace)].ok
                /\ SumSizes(trace[Len(trace)].sizes) = request.n
                /\ Len(d.chunks) = request.n
                /\ AllChunksInIndex
        /\ (pc = "responded" /\ response.status # 200) =>
              \A d \in RequestRows : d.status # "indexed"

\* an upload of more than one batch is INDEXED after a failed attempt
C13_Witness ==
    /\ InUpload
    /\ pc = "responded"
    /\ request.n > UpsertBatchSize
    /\ Len(trace) = 2
    /\ ~trace[1].ok /\ Len(trace[1].sizes) = 2
    /\ \E d \in RequestRows : d.status = "indexed"

\* some invocation of upsert_chunks failed after a batch of it had succeeded
PartialUpsert ==
    \E i \in 1..Len(trace) : ~trace[i].ok /\ Len(trace[i].sizes) >= 2

\* C14: an upload that failed after some upsert batches had succeeded leaves
\* its document in the persistent store in the FAILED state.
C14_PartialUpsertLeavesFailed ==
    (InUpload /\ pc = "responded" /\ response.status = 500 /\ PartialUpsert)
    => \E d \in RequestRows : d.status = "failed"

\* C15: once the operations started have completed, every vector in a
\* tenant's namespace is the vector of a chunk row of a document of that
\* tenant.
C15_NoOrphanedVectors ==
    pc \in {"idle", "responded"} =>
        \A v \in index :
            \E d \in db :
                /\ d.tenant_id = v.ns
                /\ \E i \in 1..Len(d.chunks) : d.chunks[i].pinecone_id = v.id

\* the wrapper of upsert_chunks has run and ended
UpsertEnded == InUpload /\ Len(trace) >= 1 /\ rt.state \in {"returned", "raised"}

\* C16: every index call of upsert_chunks carries between 1 and 100 vectors;
\* when upsert_chunks returns normally its last invocation has sent every
\* chunk, and every chunk is in the index under the namespace tenant_id; when
\* the last allowed attempt fails, upsert_chunks raises and the upload fails.
C16_UpsertAllOrRaise ==
    (InUpload /\ Len(trace) >= 1) =>
        /\ \A i \in 1..Len(trace) : \A j \in 1..Len(trace[i].sizes) :
              trace[i].sizes[j] >= 1 /\ trace[i].sizes[j] <= 100
        /\ Len(trace) <= IndexMaxRetries + 1
        /\ rt.state = "returned" =>
              /\ trace[Len(trace)].ok
              /\ SumSizes(trace[Len(trace)].sizes) = request.n
              /\ Len(trace[Len(trace)].sizes) = (request.n + 99) \div 100
              /\ AllChunksInIndex
        /\ (Len(trace) = IndexMaxRetries + 1 /\ ~trace[Len(trace)].ok) =>
              /\ rt.state = "raised"
              /\ pc = "responded"
              /\ response.status = 500
        /\ rt.state = "raised" => ~trace[Len(trace)].ok

\* upsert_chunks returned normally on its second invocation, for a document of
\* two batches, after the second batch of the first invocation had failed
C16_Witness ==
    /\ UpsertEnded
    /\ rt.state = "returned"
    /\ request.n = 101
    /\ Len(trace) = 2
    /\ trace[1].sizes = <<100, 1>> /\ ~trace[1].ok
    /\ trace[2].sizes = <<100, 1>> /\ trace[2].ok

(***************************************************************************)
(* The segmenter: services/document_processor.py                           *)
(***************************************************************************)

\* A text is a sequence of characters: a letter or a blank.
Chars == {"a", " "}

Texts == UNION { [1..n -> Chars] : n \in 0..MaxTextLen }

\* the whitespace of the texts: the blank and the line feed
Whitespace == {" ", "\n"}

\* str.strip()
RECURSIVE LStrip(_)
LStrip(text) ==
    IF text # <<>> /\ Head(text) \in Whitespace THEN LStrip(Tail(text)) ELSE text

RECURSIVE RStrip(_)
RStrip(text) ==
    IF text # <<>> /\ text[Len(text)] \in Whitespace
    THEN RStrip(SubSeq(text, 1, Len(text) - 1)) ELSE text

Strip(text) == RStrip(LStrip(text))

\* tokenizer.encode: a token is a sequence of characters; a blank joins the
\* letter that follows it into one token, as the byte-pair encoding does.
RECURSIVE Encode(_)
Encode(text) ==
    IF text = <<>> THEN <<>>
    ELSE IF Len(text) >= 2 /\ text[1] = " " /\ text[2] = "a"
    THEN <<SubSeq(text, 1, 2)>> \o Encode(SubSeq(text, 3, Len(text)))
    ELSE <<SubSeq(text, 1, 1)>> \o Encode(Tail(text))

\* tokenizer.decode: the characters of the tokens, in order
RECURSIVE Decode(_)
Decode(tokens) ==
    IF tokens = <<>> THEN <<>> ELSE Head(tokens) \o Decode(Tail(tokens))

\* the position a slice bound stands for in a list of length n
SliceBound(i, n) ==
    IF i < 0 THEN (IF i + n < 0 THEN 0 ELSE i + n)
    ELSE IF i > n THEN n ELSE i

\* tokens[start:end]
PySlice(tokens, start, end) ==
    SubSeq(tokens, SliceBound(start, Len(tokens)) + 1, SliceBound(end, Len(tokens)))

\* end = min(start + self.chunk_size, len(tokens))
WindowEnd(start, chunk_size, n) ==
    IF start + chunk_size < n THEN start + chunk_size ELSE n

NextStartNoOverlap(start, chunk_size, chunk_overlap) == start + chunk_size + 1

NextStartStays(start, chunk_size, chunk_overlap) == start

NextStartByOverlap(start, chunk_size, chunk_overlap) ==
    IF chunk_overlap = 0 THEN start + chunk_size ELSE start + chunk_overlap

\* start += self.chunk_size - self.chunk_overlap
NextStart(start, chunk_size, chunk_overlap) == start + chunk_size - chunk_overlap

ChunkIndexFromZero(start_index, chunks) == Len(chunks)

\* chunk_index = start_index + len(chunks)
ChunkIndex(start_index, chunks) == start_index + Len(chunks)

ChunkNoSection(chunk_index, text, page_number, section_title, token_count) ==
    [ chunk_index   |-> chunk_index,
      text          |-> text,
      page_number   |-> page_number,
      section_title |-> None,
      token_count   |-> token_count ]

\* Chunk(...); the chunk_id, a fresh uuid4, is left out
Chunk(chunk_index, text, page_number, section_title, token_count) ==
    [ chunk_index   |-> chunk_index,
      text          |-> text,
      page_number   |-> page_number,
      section_title |-> section_title,
      token_count   |-> token_count ]

\* the chunk one iteration of the loop of _split_text appends
SplitChunk(tokens, start, chunks, chunk_size, page_number, section_title, start_index) ==
    LET end          == WindowEnd(start, chunk_size, Len(tokens))
        chunk_tokens == PySlice(tokens, start, end)
    IN  Chunk(ChunkIndex(start_index, chunks), Strip(Decode(chunk_tokens)),
              page_number, section_title, Len(chunk_tokens))

\* settings.chunk_size and settings.chunk_overlap, as __init__ takes them
SegConfigs ==
    { [chunk_size |-> cs, chunk_overlap |-> co] :
        cs \in 1..MaxChunkSize, co \in 0..MaxChunkSize }

\* the text of n words separated by blanks
RECURSIVE Words(_)
Words(n) == IF n <= 1 THEN <<"a">> ELSE <<"a", " ">> \o Words(n - 1)

\* the stripped, non-empty texts of the sections and pages of a document
DocTexts == { Words(n) : n \in 1..4 }

\* The sections _detect_sections hands to _chunk_by_sections (more than one,
\* each with text), section i starting on page i under the title i.
SectionLists ==
    UNION { [1..n -> DocTexts] : n \in 2..MaxSections }

\* The pages _extract_pages hands to _chunk_sliding_window: each text is
\* stripped and may be empty.
PageLists ==
    UNION { [1..n -> DocTexts \cup {<<>>}] : n \in 1..MaxSections }

\* the locals of a call of _split_text when it enters its loop
EnterSplit(text, page_number, section_title, start_index) ==
    [ tokens        |-> Encode(text),
      start         |-> 0,
      sub           |-> <<>>,
      windows       |-> <<>>,
      text          |-> text,
      page_number   |-> page_number,
      section_title |-> section_title,
      start_index   |-> start_index,
      broke         |-> FALSE ]

\* no call of _split_text is running
NoSplit == EnterSplit(<<>>, 0, None, 0)

\* the variables the segmenter leaves alone
otherThanSegment ==
    <<limiter, rt, trace, index, upserted, nextId, found, request, response, searches, calls,
      db, session, storage, jobs>>

\* A DocumentProcessor has been constructed with a configuration, and either
\* _split_text has been called on a text, or one of the two chunking methods
\* on a document.
InitSegment ==
    /\ rt = Idle
    /\ trace = <<>>
    /\ index = {}
    /\ upserted = {}
    /\ nextId = 1
    /\ found = [kind |-> None]
    /\ request = None
    /\ response = None
    /\ searches = <<>>
    /\ calls = None
    /\ db = {}
    /\ session = None
    /\ storage = {}
    /\ jobs = 0
    /\ limiter = None
    /\ \E config \in SegConfigs :
        \/ \E text \in Texts, section_title \in {"Test", None}, start_index \in {0, 2} :
              /\ pc = "split"
              /\ seg = [ config |-> config, mode |-> "split", items |-> <<text>>, k |-> 1,
                         chunk_index |-> 0, chunks |-> <<>>,
                         call |-> EnterSplit(text, 1, section_title, start_index) ]
        \/ \E items \in SectionLists :
              /\ pc = "segment"
              /\ seg = [ config |-> config, mode |-> "sections", items |-> items, k |-> 1,
                         chunk_index |-> 0, chunks |-> <<>>, call |-> NoSplit ]
        \/ \E items \in PageLists :
              /\ pc = "segment"
              /\ seg = [ config |-> config, mode |-> "sliding", items |-> items, k |-> 1,
                         chunk_index |-> 0, chunks |-> <<>>, call |-> NoSplit ]

\* One iteration of `while start < len(tokens)` in _split_text
SplitIteration ==
    /\ pc = "split"
    /\ ~seg.call.broke
    /\ seg.call.start < Len(seg.call.tokens)
    /\ Len(seg.call.sub) < MaxWindows
    /\ LET c     == seg.call
           end   == WindowEnd(c.start, seg.config.chunk_size, Len(c.tokens))
           chunk == SplitChunk(c.tokens, c.start, c.sub, seg.config.chunk_size,
                               c.page_number, c.section_title, c.start_index)
       IN  seg' = [seg EXCEPT
                     !.call.sub = Append(@, chunk),
                     !.call.windows = Append(@, [start |-> c.start, end |-> end]),
                     !.call.broke = end >= Len(c.tokens),
                     !.call.start = IF end >= Len(c.tokens) THEN @
                                    ELSE NextStart(@, seg.config.chunk_size,
                                                   seg.config.chunk_overlap)]
    /\ UNCHANGED pc
    /\ UNCHANGED otherThanSegment

\* _split_text returns its chunks; a chunking method extends its list with
\* them and goes on with the next section or page.
SplitReturn ==
    /\ pc = "split"
    /\ seg.call.broke \/ seg.call.start >= Len(seg.call.tokens)
    /\ IF seg.mode = "split"
       THEN /\ seg' = [seg EXCEPT !.chunks = seg.call.sub]
            /\ pc' = "returned"
       ELSE /\ seg' = [seg EXCEPT !.chunks = @ \o seg.call.sub,
                                  !.chunk_index = @ + Len(seg.call.sub),
                                  !.k = @ + 1]
            /\ pc' = "segment"
    /\ UNCHANGED otherThanSegment

\* One iteration of `for section in sections` in _chunk_by_sections
NextSection ==
    /\ pc = "segment"
    /\ seg.mode = "sections"
    /\ seg.k <= Len(seg.items)
    /\ LET text        == Strip(seg.items[seg.k])
           token_count == Len(Encode(text))
       IN  IF token_count <= seg.config.chunk_size
           THEN /\ seg' = [seg EXCEPT
                             !.chunks = Append(@, Chunk(seg.chunk_index, text, seg.k, seg.k,
                                                        token_count)),
                             !.chunk_index = @ + 1,
                             !.k = @ + 1]
                /\ UNCHANGED pc
           ELSE /\ seg' = [seg EXCEPT !.call = EnterSplit(text, seg.k, seg.k, seg.chunk_index)]
                /\ pc' = "split"
    /\ UNCHANGED otherThanSegment

PageSkippedNever(text) == FALSE

\* if not text: continue
PageSkipped(text) == text = <<>>

\* One iteration of `for page in pages` in _chunk_sliding_window
NextPage ==
    /\ pc = "segment"
    /\ seg.mode = "sliding"
    /\ seg.k <= Len(seg.items)
    /\ LET text == Strip(seg.items[seg.k])
       IN  IF PageSkipped(text)
           THEN /\ seg' = [seg EXCEPT !.k = @ + 1]
                /\ UNCHANGED pc
           ELSE /\ seg' = [seg EXCEPT !.call = EnterSplit(text, seg.k, None, seg.chunk_index)]
                /\ pc' = "split"
    /\ UNCHANGED otherThanSegment

\* the chunking method returns its list
SegmentReturn ==
    /\ pc = "segment"
    /\ seg.k > Len(seg.items)
    /\ pc' = "returned"
    /\ UNCHANGED seg
    /\ UNCHANGED otherThanSegment

NextSegment == SplitIteration \/ SplitReturn \/ NextSection \/ NextPage \/ SegmentReturn

SpecSegment == InitSegment /\ [][NextSegment]_vars

\* The segmenter is sequential code that keeps running: a step that can be
\* taken is taken.
SpecSegmentFair == SpecSegment /\ WF_vars(NextSegment)

(***************************************************************************)
(* Claims about the segmenter, checked under SpecSegment.                  *)
(***************************************************************************)

\* the configuration has chunk_overlap >= chunk_size
InvalidConfig == seg.config.chunk_overlap >= seg.config.chunk_size

\* the running or last call of _split_text has left its loop
SplitEnded ==
    /\ seg.call.text # <<>>
    /\ \/ pc = "split" /\ (seg.call.broke \/ seg.call.start >= Len(seg.call.tokens))
       \/ pc = "returned" /\ seg.mode = "split"

\* C17: a configuration with chunk_overlap >= chunk_size is rejected before
\* any work: no iteration of the splitting loop runs under it and no chunk is
\* made.
C17_InvalidConfigRejected ==
    InvalidConfig => (seg.call.windows = <<>> /\ seg.chunks = <<>>)

\* C18 as stated: for a text of at most chunk_size tokens _split_text returns
\* exactly one chunk, whose text is the original text and whose page_number
\* and section_title are the values passed in.
C18_SmallTextOneChunk ==
    (pc = "returned" /\ seg.mode = "split"
        /\ Len(Encode(seg.items[1])) <= seg.config.chunk_size)
    => /\ Len(seg.chunks) = 1
       /\ seg.chunks[1].text = seg.items[1]
       /\ seg.chunks[1].page_number = seg.call.page_number
       /\ seg.chunks[1].section_title = seg.call.section_title

\* text is `inner` with blanks around it, and inner has none at its ends
StrippedTo(text, inner) ==
    /\ inner # <<>> => inner[1] # " " /\ inner[Len(inner)] # " "
    /\ \E l \in 0..Len(text) :
          /\ l + Len(inner) <= Len(text)
          /\ \A i \in 1..Len(text) :
                IF i > l /\ i <= l + Len(inner) THEN text[i] = inner[i - l]
                ELSE text[i] = " "

\* C18 as amended: for a text of at least one and at most chunk_size tokens
\* _split_text returns exactly one chunk, whose text is the original text
\* without its leading and trailing whitespace (the original text when it has
\* none), and whose page_number and section_title are the values passed in;
\* for the empty text it returns no chunk.
C18_SmallTextOneStrippedChunk ==
    /\ (pc = "returned" /\ seg.mode = "split" /\ seg.items[1] = <<>>)
         => seg.chunks = <<>>
    /\ (pc = "returned" /\ seg.mode = "split"
        /\ Len(Encode(seg.items[1])) >= 1
        /\ Len(Encode(seg.items[1])) <= seg.config.chunk_size)
       =>
       /\ Len(seg.chunks) = 1
       /\ StrippedTo(seg.items[1], seg.chunks[1].text)
       /\ (seg.items[1][1] # " " /\ seg.items[1][Len(seg.items[1])] # " ")
             => seg.chunks[1].text = seg.items[1]
       /\ seg.chunks[1].page_number = seg.call.page_number
       /\ seg.chunks[1].section_title = seg.call.section_title

\* a text of two tokens with a blank in front has come back as one chunk
C18_Witness ==
    /\ pc = "returned" /\ seg.mode = "split"
    /\ seg.items[1] = <<" ", " ", "a">>
    /\ seg.config.chunk_size = 2
    /\ seg.call.section_title = "Test"
    /\ Len(seg.chunks) = 1
    /\ seg.chunks[1].text = <<"a">>

\* C19: when _split_text is called with overlap < chunk_size on a text of more
\* than chunk_size tokens, it returns at least two chunks, with chunk_index
\* start_index, start_index + 1, ... in order, each of at most chunk_size
\* tokens, and the token windows of the chunks leave no gap: consecutive
\* windows touch or overlap and every token position is in some window.
C19_LargeTextContiguousChunks ==
    (SplitEnded /\ ~InvalidConfig
        /\ Len(seg.call.tokens) > seg.config.chunk_size)
    => LET c == seg.call
       IN  /\ Len(c.sub) >= 2
           /\ Len(c.windows) = Len(c.sub)
           /\ \A i \in 1..Len(c.sub) :
                 /\ c.sub[i].chunk_index = c.start_index + i - 1
                 /\ c.sub[i].token_count <= seg.config.chunk_size
                 /\ c.sub[i].token_count = c.windows[i].end - c.windows[i].start
           /\ c.windows[1].start = 0
           /\ \A i \in 1..(Len(c.windows) - 1) :
                 /\ c.windows[i + 1].start > c.windows[i].start
                 /\ c.windows[i + 1].start <= c.windows[i].end
           /\ \A pos \in 0..(Len(c.tokens) - 1) :
                 \E i \in 1..Len(c.windows) :
                    c.windows[i].start <= pos /\ pos < c.windows[i].end

\* a call with start_index 2 and an overlap has returned three chunks
C19_Witness ==
    /\ pc = "returned" /\ seg.mode = "split"
    /\ seg.config.chunk_overlap = 1
    /\ seg.config.chunk_size = 2
    /\ seg.call.start_index = 2
    /\ Len(seg.call.tokens) = 4
    /\ Len(seg.chunks) = 3
    /\ seg.chunks[3].chunk_index = 4

\* C20: the list a chunking method returns has the chunk_index values
\* 0, 1, ..., n-1 in list order, and follows the reading order: the chunks of
\* an earlier section or page come before those of a later one.
C20_ChunkIndexContiguous ==
    (pc = "returned" /\ seg.mode \in {"sections", "sliding"})
    => /\ \A i \in 1..Len(seg.chunks) : seg.chunks[i].chunk_index = i - 1
       /\ \A i \in 1..(Len(seg.chunks) - 1) :
             seg.chunks[i].page_number <= seg.chunks[i + 1].page_number
       /\ \A k \in 1..Len(seg.items) :
             seg.items[k] # <<>> => \E i \in 1..Len(seg.chunks) : seg.chunks[i].page_number = k

\* a section of one chunk is followed by a section that was split
C20_Witness ==
    /\ pc = "returned" /\ seg.mode = "sections"
    /\ Len(seg.items) = 2
    /\ Len(seg.chunks) >= 3
    /\ seg.chunks[1].page_number = 1
    /\ seg.chunks[2].page_number = 2
    /\ seg.call.start_index = 1

(***************************************************************************)
(* More claims about the segmenter, checked under SpecSegment.             *)
(***************************************************************************)

\* _chunk_sliding_window is running, or has returned
InSliding == seg.mode = "sliding"

\* every page of the document has an empty text
AllPagesEmpty == \A k \in 1..Len(seg.items) : seg.items[k] = <<>>

\* C22: a page whose text is empty contributes no chunk, and a document all
\* of whose pages are empty gives no chunk and no error: _split_text is never
\* entered for it, and the method returns the empty list.
C22_EmptyPagesGiveNoChunk ==
    InSliding =>
        /\ \A i \in 1..Len(seg.chunks) : seg.items[seg.chunks[i].page_number] # <<>>
        /\ \A i \in 1..Len(seg.call.sub) : seg.items[seg.call.page_number] # <<>>
        /\ AllPagesEmpty =>
              /\ pc \in {"segment", "returned"}
              /\ seg.call = NoSplit
              /\ seg.chunks = <<>>
              /\ seg.k > Len(seg.items) => (pc = "returned" \/ ENABLED SegmentReturn)

\* a document of an empty page and a page with text has been chunked
C22_Witness ==
    /\ InSliding
    /\ pc = "returned"
    /\ Len(seg.items) = 2
    /\ seg.items[1] = <<>>
    /\ seg.items[2] # <<>>
    /\ seg.chunks # <<>>
    /\ \A i \in 1..Len(seg.chunks) : seg.chunks[i].page_number = 2


\* a call of _split_text is running or has returned, under a configuration
\* with chunk_overlap < chunk_size
ValidSplit == ~InvalidConfig /\ seg.call.text # <<>>

\* what the loop of _split_text has done so far is as C25 says
SplitAdvances ==
    ValidSplit =>
        LET c == seg.call
            n == Len(c.tokens)
            w == c.windows
        IN  /\ seg.config.chunk_size - seg.config.chunk_overlap > 0
            /\ Len(w) <= n
            /\ Len(c.sub) = Len(w)
            /\ \A i \in 1..(Len(w) - 1) :
                  /\ w[i + 1].start
                        = w[i].start + seg.config.chunk_size - seg.config.chunk_overlap
                  /\ w[i].end < n
            /\ (c.broke \/ SplitEnded) =>
                  /\ w # <<>>
                  /\ w[Len(w)].end = n
                  /\ w[Len(w)].start < n
                  /\ c.sub[Len(w)].token_count = n - w[Len(w)].start
            /\ (w # <<>> /\ w[Len(w)].end >= n) => c.broke

\* C25: with 0 <= chunk_overlap < chunk_size, every step of the loop of
\* _split_text moves the start of the window forward by
\* chunk_size - chunk_overlap > 0, no window follows one that reached the end
\* of the tokens, the last window is emitted and ends at the last token, and
\* the call - and the chunking method that made it - returns.
C25_SplitTerminates ==
    /\ []SplitAdvances
    /\ (~InvalidConfig) ~> (pc = "returned")

\* a call on five tokens with windows of three overlapping in two has
\* returned after three steps, the last window being the tokens 3 to 5
C25_Witness ==
    /\ pc = "returned" /\ seg.mode = "split"
    /\ seg.config.chunk_size = 3 /\ seg.config.chunk_overlap = 2
    /\ Len(seg.call.tokens) = 5
    /\ seg.call.windows = << [start |-> 0, end |-> 3], [start |-> 1, end |-> 4],
                             [start |-> 2, end |-> 5] >>
    /\ Len(seg.chunks) = 3

\* the token positions of a window
Positions(w) == w.start .. (w.end - 1)

\* every window that has a successor holds chunk_size tokens and shares
\* exactly chunk_overlap token positions with its successor
WindowsOverlap ==
    LET w == seg.call.windows
    IN  \A i \in 1..(Len(w) - 1) :
            /\ Cardinality(Positions(w[i])) = seg.config.chunk_size
            /\ seg.call.sub[i].token_count = seg.config.chunk_size
            /\ Cardinality(Positions(w[i]) \cap Positions(w[i + 1])) = seg.config.chunk_overlap

\* C29 as stated: with 0 <= chunk_overlap < chunk_size, every window except
\* the last holds exactly chunk_size tokens, consecutive windows share exactly
\* chunk_overlap tokens, and the last window is longer than chunk_overlap
\* tokens.
C29_WindowsAndLastLonger ==
    (ValidSplit /\ SplitEnded) =>
        /\ WindowsOverlap
        /\ LET w == seg.call.windows
           IN  Cardinality(Positions(w[Len(w)])) > seg.config.chunk_overlap

\* C29 as amended: with 0 <= chunk_overlap < chunk_size, every window except
\* the last holds exactly chunk_size tokens, consecutive windows share exactly
\* chunk_overlap tokens, and when there is more than one window the last one
\* is longer than chunk_overlap tokens, so that it holds a token no window
\* before it holds; a single window holds all the tokens of the text.
C29_WindowsAndLastAddsToken ==
    (ValidSplit /\ SplitEnded) =>
        /\ WindowsOverlap
        /\ LET w    == seg.call.windows
               last == Positions(w[Len(w)])
           IN  /\ Len(w) > 1 => Cardinality(last) > seg.config.chunk_overlap
               /\ \E pos \in last : \A i \in 1..(Len(w) - 1) : pos \notin Positions(w[i])
               /\ Len(w) = 1 => last = 0 .. (Len(seg.call.tokens) - 1)

\* four tokens in windows of three overlapping in two: the last window adds
\* one token to the two it shares
C29_Witness ==
    /\ ValidSplit /\ SplitEnded
    /\ seg.config.chunk_size = 3 /\ seg.config.chunk_overlap = 2
    /\ seg.call.windows = << [start |-> 0, end |-> 3], [start |-> 1, end |-> 4] >>


(***************************************************************************)
(* Section detection: DocumentProcessor._detect_sections                   *)
(***************************************************************************)

\* how many lines the pages of a document have together
MaxLines == 4

\* n times the character c
RECURSIVE Rep(_, _)
Rep(c, n) == IF n = 0 THEN <<>> ELSE <<c>> \o Rep(c, n - 1)

\* The lines of the documents: two headers in capitals (the second one
\* indented), a sentence, a line of capitals as long as a paragraph, and a
\* line of blanks. "A" is a capital letter and "a" a small one.
DetectLines ==
    { Rep("A", 6),
      <<" ", "A", "A", "A", " ", "A", "A", "A">>,
      <<"a", "a">>,
      Rep("A", 100),
      <<" ">> }

\* "\n".join(lines)
RECURSIVE JoinLines(_)
JoinLines(lines) ==
    IF lines = <<>> THEN <<>>
    ELSE IF Len(lines) = 1 THEN lines[1]
    ELSE lines[1] \o <<"\n">> \o JoinLines(Tail(lines))

\* page["text"].split("\n")
RECURSIVE SplitLines(_)
SplitLines(text) ==
    IF \A i \in 1..Len(text) : text[i] # "\n" THEN <<text>>
    ELSE LET i == CHOOSE k \in 1..Len(text) :
                     text[k] = "\n" /\ \A j \in 1..(k - 1) : text[j] # "\n"
         IN  <<SubSeq(text, 1, i - 1)>> \o SplitLines(SubSeq(text, i + 1, Len(text)))

\* {5,} in the pattern of the lines in capitals
HeaderTailMin == 5

\* len(line_stripped) < 100
HeaderMaxLen == 100

\* any(re.match(pattern, line_stripped) for pattern in header_patterns). Of
\* the five patterns only ^[A-Z][A-Z\s\-]{5,}$ can match a line of these
\* characters: the others ask for a digit, a dot or a keyword.
MatchesHeaderPattern(line_stripped) ==
    /\ Len(line_stripped) >= 1 + HeaderTailMin
    /\ line_stripped[1] = "A"
    /\ \A i \in 2..Len(line_stripped) : line_stripped[i] \in {"A", "-"} \cup Whitespace

\* is_header and len(line_stripped) < 100
IsHeaderLine(line_stripped) ==
    MatchesHeaderPattern(line_stripped) /\ Len(line_stripped) < HeaderMaxLen

StartSectionFirstPage(title, page_number) ==
    [title |-> title, text |-> <<>>, page_number |-> 1]

\* current_section = {"title": line_stripped, "text": "", "page_number": ...}
StartSection(title, page_number) ==
    [title |-> title, text |-> <<>>, page_number |-> page_number]

\* the section _detect_sections starts with
DocumentStart == StartSection("Document Start", 1)

\* if current_section["text"].strip(): sections.append(current_section)
SaveSection(sections, current_section) ==
    IF Strip(current_section.text) # <<>> THEN Append(sections, current_section)
    ELSE sections

\* The pages of a document whose lines are doc[i].line, each on page
\* doc[i].page: page["text"] is the lines of the page joined by line feeds.
PagesOf(doc, page_count) ==
    [ p \in 1..page_count |->
        [ page_number |-> p,
          text |-> LET on == SelectSeq(doc, LAMBDA d : d.page = p)
                   IN  JoinLines([ i \in 1..Len(on) |-> on[i].line ]) ] ]

\* the variables _detect_sections leaves alone
otherThanDetect ==
    <<limiter, rt, trace, index, upserted, nextId, found, request, response, searches, calls,
      db, session, storage, jobs>>

\* _detect_sections has been called with the pages of a document of one or
\* two pages and is about to read the first page.
InitDetect ==
    /\ rt = Idle
    /\ trace = <<>>
    /\ index = {}
    /\ upserted = {}
    /\ nextId = 1
    /\ found = [kind |-> None]
    /\ request = None
    /\ response = None
    /\ searches = <<>>
    /\ calls = None
    /\ db = {}
    /\ session = None
    /\ storage = {}
    /\ jobs = 0
    /\ limiter = None
    /\ pc = "detect"
    /\ \E n \in 0..MaxLines :
        \E lines \in [1..n -> DetectLines], first \in 0..n :
            LET page_count == IF first = n THEN 1 ELSE 2
                doc == [ i \in 1..n |->
                           [line |-> lines[i], page |-> IF i <= first \/ first = n THEN 1 ELSE 2] ]
                pages == PagesOf(doc, page_count)
            IN  /\ n >= 1 => first >= 1
                /\ seg = [ mode |-> "detect", doc |-> doc, pages |-> pages, p |-> 0,
                           lines |-> <<>>, l |-> 1, sections |-> <<>>,
                           current_section |-> DocumentStart ]

\* `for page in pages`: the next page is split into its lines
DetectPage ==
    /\ pc = "detect"
    /\ seg.l > Len(seg.lines)
    /\ seg.p < Len(seg.pages)
    /\ seg' = [seg EXCEPT !.p = @ + 1,
                          !.lines = SplitLines(seg.pages[seg.p + 1].text),
                          !.l = 1]
    /\ UNCHANGED pc
    /\ UNCHANGED otherThanDetect

\* One iteration of `for line in lines`
DetectLine ==
    /\ pc = "detect"
    /\ seg.l <= Len(seg.lines)
    /\ LET line          == seg.lines[seg.l]
           line_stripped == Strip(line)
       IN  seg' = IF line_stripped = <<>>
                  THEN [seg EXCEPT !.l = @ + 1]
                  ELSE IF IsHeaderLine(line_stripped)
                  THEN [seg EXCEPT
                          !.l = @ + 1,
                          !.sections = SaveSection(@, seg.current_section),
                          !.current_section =
                              StartSection(line_stripped, seg.pages[seg.p].page_number)]
                  ELSE [seg EXCEPT
                          !.l = @ + 1,
                          !.current_section.text = @ \o line \o <<"\n">>]
    /\ UNCHANGED pc
    /\ UNCHANGED otherThanDetect

\* after the last page: the last section is saved and the list returned
DetectReturn ==
    /\ pc = "detect"
    /\ seg.l > Len(seg.lines)
    /\ seg.p >= Len(seg.pages)
    /\ seg' = [seg EXCEPT !.sections = SaveSection(@, seg.current_section)]
    /\ pc' = "returned"
    /\ UNCHANGED otherThanDetect

NextDetect == DetectPage \/ DetectLine \/ DetectReturn

SpecDetect == InitDetect /\ [][NextDetect]_vars

(***************************************************************************)
(* Claims about section detection, checked under SpecDetect.               *)
(***************************************************************************)

\* the lines of the document that are not blank, in reading order
TextLines == SelectSeq(seg.doc, LAMBDA d : Strip(d.line) # <<>>)

\* the header lines among them
HeaderLines == SelectSeq(TextLines, LAMBDA d : IsHeaderLine(Strip(d.line)))

\* The document starts with a header line, every header line is followed by a
\* line of text that is no header, and no two header lines are the same.
HeadersWithText ==
    /\ TextLines # <<>>
    /\ IsHeaderLine(Strip(TextLines[1].line))
    /\ \A i \in 1..Len(TextLines) :
          IsHeaderLine(Strip(TextLines[i].line))
             => i < Len(TextLines) /\ ~IsHeaderLine(Strip(TextLines[i + 1].line))
    /\ \A i, j \in 1..Len(HeaderLines) :
          i # j => Strip(HeaderLines[i].line) # Strip(HeaderLines[j].line)

MaxCandidates == 6

\* the similarity scores of the candidates, in tenths
Scores == {5, 7, 9}

\* The lists a search returns: chunk i of the list has chunk_id i and any of
\* the scores.
Candidates ==
    UNION { [1..n -> { [chunk_id |-> 0, similarity_score |-> sc] : sc \in Scores }] :
              n \in 0..MaxCandidates }

Retrieved(list) == [ i \in 1..Len(list) |-> [list[i] EXCEPT !.chunk_id = i] ]

\* The ways the retry wrapper of the provider call ends: it returns the text
\* of the provider, or raises the provider's last error.
GenerateEndings ==
    { [NewFrame(GenerateMaxRetries, GenerateTiming, DefaultAllow) EXCEPT
          !.state = "returned", !.invoked = 1, !.result = [val |-> v, at |-> 1]] :
        v \in Values }
    \cup
    { [NewFrame(GenerateMaxRetries, GenerateTiming, DefaultAllow) EXCEPT
          !.state = "raised", !.invoked = GenerateMaxRetries + 1,
          !.raised = [err |-> e, at |-> GenerateMaxRetries + 1]] :
        e \in ProviderErrors }

\* the variables the selection leaves alone
otherThanSelect ==
    <<limiter, trace, index, upserted, nextId, request, searches, calls, db, session, storage,
      jobs, seg>>

\* the search of a query has returned its chunks
InitSelect ==
    /\ rt = Idle
    /\ trace = <<>>
    /\ index = {}
    /\ upserted = {}
    /\ nextId = 1
    /\ \E list \in Candidates :
        found = [kind |-> "policy", chunks |-> Retrieved(list), top |-> <<>>]
    /\ request = None
    /\ pc = "select"
    /\ response = Result(0, None, <<>>, 0, NoError)
    /\ searches = <<>>
    /\ calls = None
    /\ db = {}
    /\ session = None
    /\ storage = {}
    /\ jobs = 0
    /\ limiter = None
    /\ seg = None

\* `if not retrieved_chunks` and step 3: the fixed result, or the candidates
\* sorted and cut to top_k_rerank
SelectTopK ==
    /\ pc = "select"
    /\ IF NoMatch(found.chunks)
       THEN /\ response' = NoResultsResponse
            /\ pc' = "responded"
            /\ UNCHANGED found
       ELSE /\ found' = [found EXCEPT !.top = TopChunks(found.chunks)]
            /\ pc' = "generate"
            /\ UNCHANGED response
    /\ UNCHANGED rt
    /\ UNCHANGED otherThanSelect

\* Steps 5 and 6: _generate_answer, whose provider call ended in `frame`, and
\* the result built from its answer and the selected chunks
GenerateAndBuild ==
    /\ pc = "generate"
    /\ \E frame \in GenerateEndings :
        /\ rt' = frame
        /\ response' = BuildResponse(GenerateAnswer(frame), found.top)
    /\ pc' = "responded"
    /\ UNCHANGED found
    /\ UNCHANGED otherThanSelect

NextSelect == SelectTopK \/ GenerateAndBuild

SpecSelect == InitSelect /\ [][NextSelect]_vars

(***************************************************************************)
(* Claims about the selection and the confidence, checked under SpecSelect. *)
(***************************************************************************)

\* chunk x comes before chunk y in the order of the selection: its score is
\* higher, or the same and it was retrieved earlier
Outranks(x, y) ==
    \/ x.similarity_score > y.similarity_score
    \/ x.similarity_score = y.similarity_score /\ x.chunk_id < y.chunk_id

\* the selection has been made
Selected == pc \in {"generate", "responded"} /\ found.chunks # <<>>

\* C23: the selected chunks are retrieved candidates, at most top_k_rerank of
\* them (all of them when there are no more), in descending order of score
\* with candidates of equal score in their retrieval order, and every
\* candidate left out comes after every selected one in that order.
C23_TopKStableByScore ==
    Selected =>
        LET c == found.chunks
            t == found.top
        IN  /\ Len(t) <= top_k_rerank
            /\ Len(t) = IF Len(c) < top_k_rerank THEN Len(c) ELSE top_k_rerank
            /\ \A i \in 1..Len(t) : t[i].chunk_id \in 1..Len(c) /\ c[t[i].chunk_id] = t[i]
            /\ \A i, j \in 1..Len(t) : i < j => Outranks(t[i], t[j])
            /\ \A k \in 1..Len(c) :
                  (\A i \in 1..Len(t) : t[i].chunk_id # k)
                     => \A i \in 1..Len(t) : Outranks(t[i], c[k])

\* six candidates, the first and the last with the lowest score: the first is
\* selected, the last is cut, and two candidates of the highest score keep
\* their retrieval order behind a lower one retrieved before them
C23_Witness ==
    /\ Selected
    /\ Len(found.chunks) = 6
    /\ [ i \in 1..6 |-> found.chunks[i].similarity_score ] = <<5, 7, 9, 9, 7, 5>>
    /\ [ i \in 1..Len(found.top) |-> found.top[i].chunk_id ] = <<3, 4, 2, 5, 1>>

\* a result has been built after generation
Generated == pc = "responded" /\ found.chunks # <<>>

\* the scores of the selected chunks, in order
TopScores == [ i \in 1..Len(found.top) |-> found.top[i].similarity_score ]

RECURSIVE Total(_)
Total(scores) == IF scores = <<>> THEN 0 ELSE Head(scores) + Total(Tail(scores))

\* C24: the confidence of a result built after generation is
\* 0.6 * (score of the first selected chunk, the highest) + 0.4 * (mean of the
\* selected scores) rounded to four decimals: in units of 0.0001, with scores
\* in tenths, the integer nearest to 600 * first + 400 * total / n. It is the
\* same whatever the answer is, and 0.82 for the scores 0.9, 0.7, 0.5.
C24_ConfidenceFromScores ==
    Generated =>
        LET n == Len(TopScores)
            exact_times_n == 600 * TopScores[1] * n + 400 * Total(TopScores)
            diff == response.confidence * n - exact_times_n
        IN  /\ \A i \in 1..n : TopScores[1] >= TopScores[i]
            /\ 2 * diff <= n /\ 2 * diff > -n
            /\ TopScores = <<9, 7, 5>> => response.confidence = 8200

\* the scores 0.9, 0.7, 0.5 were selected and the generation failed
C24_Witness ==
    /\ Generated
    /\ TopScores = <<9, 7, 5>>
    /\ response.answer = DegradedAnswer
    /\ response.confidence = 8200

(***************************************************************************)
(* More claims about a query request, checked under SpecQuery.             *)
(***************************************************************************)

\* the retry wrapper of a service call of the request has given up
ServiceRaised == pc = "responded" /\ rt.state = "raised"

\* C27: the service calls are wrapped with the default retryable_exceptions,
\* under which every exception is retried whatever its name and status code:
\* no failure ends a call before the budget is spent, and a call that gives up
\* has been invoked exactly max_retries + 1 times (4 times for embed_text, 3
\* for a search or a generation), every invocation but the last followed by a
\* retry.
C27_DefaultAllowRetriesAll ==
    /\ rt.state \in {"running", "returned", "raised"} =>
          /\ rt.allow = DefaultAllow
          /\ rt.state # "raised" => rt.warnings = rt.invoked - (IF rt.state = "returned" THEN 1 ELSE 0)
    /\ ServiceRaised =>
          /\ rt.invoked = rt.max_retries + 1
          /\ rt.warnings = rt.max_retries
          /\ rt.raised.at = rt.max_retries + 1
          /\ \/ calls.search = 0 /\ calls.embed = EmbedMaxRetries + 1
             \/ calls.generate = 0 /\ calls.search = IndexMaxRetries + 1
             \/ calls.generate = GenerateMaxRetries + 1

\* embed_text failed four times with an exception that has neither a
\* retryable name nor a status code
C27_Witness ==
    /\ ServiceRaised
    /\ calls.search = 0
    /\ calls.embed = 4
    /\ rt.raised.err.kind = "ValueError"
    /\ rt.raised.err.status_code = NoStatus /\ rt.raised.err.status = NoStatus


\* C30: the result returned when the generation failed carries one citation
\* for each selected chunk, in order, and the confidence computed from the
\* selected scores, which is not zero; with the answer of a successful
\* generation in place of the degraded sentence it is the result that
\* generation would have given.
C30_DegradedKeepsCitationsAndConfidence ==
    GenerationFailed =>
        LET n == Len(found.top)
            diff == response.confidence * n - (600 * TopScores[1] * n + 400 * Total(TopScores))
        IN  /\ n >= 1
            /\ response.answer = DegradedAnswer
            /\ Len(response.citations) = n
            /\ \A i \in 1..n :
                  /\ response.citations[i].chunk_id = found.top[i].chunk_id
                  /\ response.citations[i].similarity_score = found.top[i].similarity_score
            /\ response.confidence > 0
            /\ 2 * diff <= n /\ 2 * diff > -n
            /\ \A v \in Values :
                  [response EXCEPT !.answer = v]
                     = BuildResponse([answer |-> v, raised |-> NoError], found.top)

\* the generation for two selected chunks of scores 0.9 and 0.7 has failed
C30_Witness ==
    /\ GenerationFailed
    /\ TopScores = <<9, 7>>
    /\ Len(response.citations) = 2
    /\ response.confidence = 8600


(***************************************************************************)
(* More claims about the upload and delete routes, checked under           *)
(* SpecUpload.                                                             *)
(***************************************************************************)

\* the ids of the vectors in the namespace of tenant_id
VectorIds(tenant_id) == { v.id : v \in { w \in index : w.ns = tenant_id } }

\* C28: between requests, every chunk row of a document that is INDEXED in
\* the documents table has its vector in the namespace of the document's
\* tenant.
C28_IndexedHasItsVectors ==
    pc \in {"idle", "responded"} =>
        \A d \in db :
            d.status = "indexed" =>
                \A i \in 1..Len(d.chunks) : d.chunks[i].pinecone_id \in VectorIds(d.tenant_id)


(***************************************************************************)
(* The rate limiter: middleware/rate_limit.py, as main.py installs it      *)
(* (no Redis client, the default limits)                                   *)
(***************************************************************************)

\* how many requests the limiter sees
MaxCalls == 11

\* how often the clock moves on, half a minute each time
MaxTicks == 2

\* A path is the sequence of its segments: /api/v1/policies/upload is
\* <<"api", "v1", "policies", "upload">>.
UploadPath == <<"api", "v1", "policies", "upload">>

PolicyQueryPath == <<"api", "v1", "policies", "P1", "query">>

HealthPath == <<"health">>

RatePaths == {UploadPath, PolicyQueryPath, HealthPath}

\* DEFAULT_LIMITS, in the order of the dict: the prefix, whether it ends with
\* a slash, max_requests and window_seconds
DEFAULT_LIMITS ==
    << [prefix |-> <<"api", "v1", "policies", "upload">>, slash |-> FALSE,
        max_requests |-> 10, window |-> 60],
       [prefix |-> <<"api", "v1", "communications", "upload">>, slash |-> FALSE,
        max_requests |-> 10, window |-> 60],
       [prefix |-> <<"api", "v1", "policies">>, slash |-> TRUE,
        max_requests |-> 60, window |-> 60],
       [prefix |-> <<"api", "v1", "communications", "query">>, slash |-> FALSE,
        max_requests |-> 60, window |-> 60],
       [prefix |-> <<"api", "v1", "auth", "verify">>, slash |-> FALSE,
        max_requests |-> 20, window |-> 60],
       [prefix |-> <<"api", "v1", "auth", "test-setup">>, slash |-> FALSE,
        max_requests |-> 5, window |-> 60],
       [prefix |-> <<"widget">>, slash |-> TRUE, max_requests |-> 30, window |-> 60] >>

\* path.startswith(prefix): the segments of the prefix begin the path, and a
\* prefix that ends with a slash has something after it
StartsWith(path, limit) ==
    /\ Len(path) >= Len(limit.prefix)
    /\ SubSeq(path, 1, Len(limit.prefix)) = limit.prefix
    /\ limit.slash => Len(path) > Len(limit.prefix)

\* no limit matches the path
NoLimit == [prefix |-> <<>>, slash |-> FALSE, max_requests |-> 0, window |-> 0]

\* _get_limit: the first limit of the dict whose prefix begins the path
GetLimit(path) ==
    IF \E i \in 1..Len(DEFAULT_LIMITS) : StartsWith(path, DEFAULT_LIMITS[i])
    THEN DEFAULT_LIMITS[CHOOSE i \in 1..Len(DEFAULT_LIMITS) :
                           /\ StartsWith(path, DEFAULT_LIMITS[i])
                           /\ \A j \in 1..(i - 1) : ~StartsWith(path, DEFAULT_LIMITS[j])]
    ELSE NoLimit

\* rate_key = f"rl:{path.split('/')[3] if len(path.split('/')) > 3 else 'api'}:{client_key}":
\* split gives an empty string before the first slash, so index 3 is the
\* third segment of the path
RateKey(path, client_key) ==
    [part |-> IF Len(path) >= 3 THEN <<path[3]>> ELSE <<"api">>, client_key |-> client_key]

\* the keys of the paths of the model
RateKeys == { RateKey(path, "c1") : path \in RatePaths }

\* _check_memory: the timestamps of the key that have not expired are kept;
\* the request is refused when max_requests of them are left, and recorded
\* otherwise
CheckMemory(store, key, max_requests, window, now) ==
    LET timestamps == SelectSeq(store[key], LAMBDA t : now - t < window)
    IN  IF Len(timestamps) >= max_requests
        THEN [allowed |-> FALSE, remaining |-> 0,
              store |-> [store EXCEPT ![key] = timestamps]]
        ELSE [allowed |-> TRUE, remaining |-> max_requests - (Len(timestamps) + 1),
              store |-> [store EXCEPT ![key] = Append(timestamps, now)]]

\* the variables the rate limiter leaves alone
otherThanRate ==
    <<rt, trace, index, upserted, nextId, found, searches, calls, db, session, storage, seg>>

\* The middleware has been constructed: no timestamp is kept. limiter.made
\* records, for each path, when the client asked for it.
InitRate ==
    /\ rt = Idle
    /\ trace = <<>>
    /\ index = {}
    /\ upserted = {}
    /\ nextId = 1
    /\ found = [kind |-> None]
    /\ request = <<>>
    /\ pc = "idle"
    /\ response = 0
    /\ searches = <<>>
    /\ calls = None
    /\ db = {}
    /\ session = None
    /\ storage = {}
    /\ jobs = 0
    /\ seg = None
    /\ limiter = [ now   |-> 0,
                   ticks |-> 0,
                   store |-> [key \in RateKeys |-> <<>>],
                   made  |-> [path \in RatePaths |-> <<>>] ]

\* dispatch: the client asks for `path`; the response is 429, or the one of
\* the route (200 here)
Dispatch ==
    /\ jobs < MaxCalls
    /\ \E path \in RatePaths :
        LET limit == GetLimit(path)
            check == CheckMemory(limiter.store, RateKey(path, "c1"), limit.max_requests,
                                 limit.window, limiter.now)
        IN  /\ request' = path
            /\ IF limit = NoLimit
               THEN /\ response' = 200
                    /\ limiter' = [limiter EXCEPT !.made[path] = Append(@, limiter.now)]
               ELSE /\ response' = IF check.allowed THEN 200 ELSE 429
                    /\ limiter' = [limiter EXCEPT !.store = check.store,
                                                  !.made[path] = Append(@, limiter.now)]
    /\ jobs' = jobs + 1
    /\ pc' = "responded"
    /\ UNCHANGED otherThanRate

\* half a minute passes
Tick ==
    /\ limiter.ticks < MaxTicks
    /\ limiter' = [limiter EXCEPT !.now = @ + 30, !.ticks = @ + 1]
    /\ pc' = "idle"
    /\ UNCHANGED <<request, response, jobs>>
    /\ UNCHANGED otherThanRate

NextRate == Dispatch \/ Tick

SpecRate == InitRate /\ [][NextRate]_vars

(***************************************************************************)
(* Claims about the rate limiter, checked under SpecRate.                  *)
(***************************************************************************)

\* how many times the client asked for `path` in the `window` seconds before
\* the request just answered
AskedBefore(path, window) ==
    LET made   == limiter.made[path]
        before == IF request = path THEN SubSeq(made, 1, Len(made) - 1) ELSE made
    IN  Len(SelectSeq(before, LAMBDA t : limiter.now - t < window))

\* C26: a client that asked for /api/v1/policies/upload fewer than 10 times in
\* the preceding 60 seconds is admitted there, however often (up to the 60
\* times allowed) it asked for other paths under /api/v1/policies/.
C26_UploadLimitIsPerEndpoint ==
    (pc = "responded" /\ request = UploadPath
        /\ AskedBefore(UploadPath, 60) < 10
        /\ AskedBefore(PolicyQueryPath, 60) <= 60)
    => response = 200

====
